---- MODULE Spec2Model ----
(***************************************************************************)
(* Archon: the action-dispatch layer of the operator console.              *)
(*                                                                         *)
(* App::update applies one Action to AppState; the spawn_* methods launch  *)
(* background tasks that send one Action into the unbounded channel        *)
(* action_tx/action_rx; App::run multiplexes terminal input and the        *)
(* channel.  AppState is the variable `state`; the durable config file is  *)
(* `disk`; the tokio tasks in flight are `tasks`; the channel is           *)
(* `action_rx`.                                                            *)
(***************************************************************************)
EXTENDS Integers, Sequences, FiniteSets, TLC

(* ----------------------------- bounds ---------------------------------- *)
\* operation ids minted by Uuid::new_v4() are 1..MaxOps
MaxOps == 2
\* Utc::now() readings are 0..MaxClock in the bounded specifications
MaxClock == 2
\* raw terminal events produced in the event-loop specification
MaxEvents == 2
\* ShowNotification pushes beyond the cap explored by the queue specification
MaxOver == 1
\* screens kept on the previous_screen stack in the selection specification
MaxNav == 2
\* consecutive SelectNext intents in one run of the selection specification
MaxSelects == 3

(* ------------------------ program constants ---------------------------- *)
\* AppState::add_notification keeps the last 50 notifications
MaxNotifications == 50

(* ------------------------------ values --------------------------------- *)
SiteIds == {"s1", "s2"}
DomainIds == {"d1", "d2"}
NodeIds == {"n1", "n2"}
Errors == {"e1"}

None == <<>>
Some(x) == <<x>>

Site(id, d, n, st) == [id |-> id, domain_id |-> d, node_id |-> n, status |-> st]
Domain(id, p, recs) == [id |-> id, dns_provider |-> p, dns_records |-> recs]
Node(id) ==
    [id |-> id, status |-> "Unknown", docker_info |-> None,
     traefik_info |-> None, last_health_check |-> None]

SelectionDefault ==
    [sites_list_index |-> 0, domains_list_index |-> 0, nodes_list_index |-> 0,
     form_field_index |-> 0, dns_records_index |-> 0]

\* env!("CARGO_PKG_VERSION")
PackageVersion == "CARGO_PKG_VERSION"

\* Settings::default()
SettingsDefault ==
    [auto_save |-> TRUE, health_check_interval_seconds |-> 300,
     default_dns_ttl |-> 300, theme |-> "default"]

\* ArchonConfig::default(): the package version, no inventory
ConfigDefault ==
    [version |-> PackageVersion, sites |-> <<>>, domains |-> <<>>, nodes |-> <<>>,
     settings |-> SettingsDefault]

(* ------------------------------ TOML file ------------------------------ *)
\* Fields of type Option<_>: serde leaves a None out of the table and reads
\* an absent key back as None
OptionFields == {"docker_info", "traefik_info", "last_health_check"}

SiteFields == {"id", "domain_id", "node_id", "status"}
DomainFields == {"id", "dns_provider", "dns_records"}
NodeFields == {"id", "status", "docker_info", "traefik_info", "last_health_check"}

\* Serialize for a struct: one key per field that is not None
Table(x) ==
    [f \in {g \in DOMAIN x : ~(g \in OptionFields /\ x[g] = None)} |->
        IF f \in OptionFields THEN x[f][1] ELSE x[f]]

\* Deserialize for a struct with the given fields
Struct(tbl, fields) ==
    [f \in fields |->
        IF f \in OptionFields
        THEN IF f \in DOMAIN tbl THEN Some(tbl[f]) ELSE None
        ELSE tbl[f]]

\* toml::to_string_pretty(config): the document written to the file
to_string_pretty(config) ==
    [version |-> config.version,
     sites |-> [i \in DOMAIN config.sites |-> Table(config.sites[i])],
     domains |-> [i \in DOMAIN config.domains |-> Table(config.domains[i])],
     nodes |-> [i \in DOMAIN config.nodes |-> Table(config.nodes[i])],
     settings |-> Table(config.settings)]

\* toml::from_str::<ArchonConfig>(content)
from_str(content) ==
    [version |-> content.version,
     sites |-> [i \in DOMAIN content.sites |-> Struct(content.sites[i], SiteFields)],
     domains |-> [i \in DOMAIN content.domains |->
                     Struct(content.domains[i], DomainFields)],
     nodes |-> [i \in DOMAIN content.nodes |-> Struct(content.nodes[i], NodeFields)],
     settings |-> Struct(content.settings, DOMAIN SettingsDefault)]

VARIABLES
    state,      \* App.state : AppState
    disk,       \* the config file at state.config_path
    fs_ok,      \* whether writes to the config file succeed
    now,        \* the next reading of Utc::now()
    next_op,    \* the next Uuid::new_v4() minted for an operation
    tasks,      \* tokio tasks spawned and not yet finished
    action_rx,  \* the channel: Actions sent and not yet received
    loop,       \* App::run: "running", "stopped" (quit) or "failed" (Err)
    term,       \* raw terminal events not yet read
    orphans,    \* spawn_blocking reads whose JoinHandle select! dropped
    hist        \* history: the last update applied and the traffic so far

vars == <<state, disk, fs_ok, now, next_op, tasks, action_rx, loop, term,
          orphans, hist>>

(* ------------------------- sequence helpers ---------------------------- *)
Range(s) == {s[i] : i \in 1..Len(s)}

\* Vec::retain(|x| x.id != id): the elements with another id, in order
RECURSIVE RetainNotId(_, _)
RetainNotId(s, id) ==
    IF s = <<>> THEN <<>>
    ELSE IF Head(s).id /= id THEN <<Head(s)>> \o RetainNotId(Tail(s), id)
         ELSE RetainNotId(Tail(s), id)

\* iter().position(|x| x.id == id): 0 when there is none
RECURSIVE PositionFrom(_, _, _)
PositionFrom(s, id, i) ==
    IF i > Len(s) THEN 0
    ELSE IF s[i].id = id THEN i ELSE PositionFrom(s, id, i + 1)

Position(s, id) == PositionFrom(s, id, 1)

\* A removal that would drop the last element whatever the index (Vec::pop)
RemoveLast(s, index) == SubSeq(s, 1, Len(s) - 1)

\* Vec::remove(index), index counted from 0
RemoveAt(s, index) ==
    [i \in 1..(Len(s) - 1) |-> IF i <= index THEN s[i] ELSE s[i + 1]]

\* A save that would write Settings::default() whatever auto_save is
ConfigOfDefaultSettings(st) ==
    [version |-> PackageVersion, sites |-> st.sites, domains |-> st.domains,
     nodes |-> st.nodes, settings |-> SettingsDefault]

(* ------------------------------ AppState ------------------------------- *)
\* What AppState::save writes: the inventory and settings.auto_save
ConfigOf(st) ==
    [version |-> PackageVersion, sites |-> st.sites, domains |-> st.domains,
     nodes |-> st.nodes,
     settings |-> [SettingsDefault EXCEPT !.auto_save = st.auto_save]]

\* A constructor that would greet with a notification of its own
StateOfWithGreeting(config) ==
    [sites |-> config.sites, domains |-> config.domains, nodes |-> config.nodes,
     current_screen |-> "Dashboard", previous_screen |-> <<>>,
     selection_state |-> [sites_list_index |-> 0, domains_list_index |-> 0,
                          nodes_list_index |-> 0],
     pending_operations |-> <<>>,
     notifications |-> <<[message |-> <<"Configuration loaded">>, level |-> "Info",
                          timestamp |-> 0]>>,
     auto_save |-> config.settings.auto_save, should_quit |-> FALSE]

\* AppState::new on a config that load_config returned
StateOf(config) ==
    [sites |-> config.sites, domains |-> config.domains, nodes |-> config.nodes,
     current_screen |-> "Dashboard", previous_screen |-> <<>>,
     selection_state |-> SelectionDefault,
     pending_operations |-> <<>>, notifications |-> <<>>,
     auto_save |-> config.settings.auto_save, should_quit |-> FALSE]

\* The owner thread's context while one update runs: AppState, the file, the
\* clock, the id source, the tasks spawned by this update, the levels of the
\* notifications it pushed, and whether a `?` returned Err.
Ctx(st, dk, clk, op) ==
    [state |-> st, disk |-> dk, now |-> clk, next_op |-> op,
     spawned |-> <<>>, emitted |-> <<>>, err |-> FALSE]

get_site(st, id) ==
    LET p == Position(st.sites, id) IN IF p = 0 THEN None ELSE Some(st.sites[p])

get_domain(st, id) ==
    LET p == Position(st.domains, id) IN IF p = 0 THEN None ELSE Some(st.domains[p])

get_node(st, id) ==
    LET p == Position(st.nodes, id) IN IF p = 0 THEN None ELSE Some(st.nodes[p])

get_node_for_site(st, site_id) ==
    LET s == get_site(st, site_id)
    IN IF s = None THEN None ELSE get_node(st, s[1].node_id)

get_domain_for_site(st, site_id) ==
    LET s == get_site(st, site_id)
    IN IF s = None THEN None ELSE get_domain(st, s[1].domain_id)

add_site(st, site) == [st EXCEPT !.sites = Append(@, site)]
remove_site(st, id) == [st EXCEPT !.sites = RetainNotId(@, id)]
add_domain(st, domain) == [st EXCEPT !.domains = Append(@, domain)]
remove_domain(st, id) == [st EXCEPT !.domains = RetainNotId(@, id)]
add_node(st, node) == [st EXCEPT !.nodes = Append(@, node)]
remove_node(st, id) == [st EXCEPT !.nodes = RetainNotId(@, id)]

navigate_to(st, screen) ==
    [st EXCEPT !.previous_screen = Append(@, st.current_screen),
               !.current_screen = screen]

\* A back navigation that would return to the dashboard whatever was pushed
navigate_back_to_dashboard(st) ==
    IF st.previous_screen = <<>> THEN st
    ELSE [st EXCEPT !.current_screen = "Dashboard",
                    !.previous_screen = SubSeq(@, 1, Len(@) - 1)]

navigate_back(st) ==
    IF st.previous_screen = <<>> THEN st
    ELSE [st EXCEPT !.current_screen = st.previous_screen[Len(st.previous_screen)],
                    !.previous_screen = SubSeq(@, 1, Len(@) - 1)]

\* while self.notifications.len() > 50 { pop_front() }
\* A trim that would drop the newest entries instead of the oldest
TrimBack(q) == IF Len(q) > MaxNotifications THEN SubSeq(q, 1, MaxNotifications) ELSE q

RECURSIVE TrimFront(_)
TrimFront(q) == IF Len(q) > MaxNotifications THEN TrimFront(Tail(q)) ELSE q

\* message: the pieces format! joins, <<text>> or <<text, argument>>
Notification(message, level, at) ==
    [message |-> message, level |-> level, timestamp |-> at]

\* AppState::add_notification: push_back with Utc::now(), then trim
add_notification(c, message, level) ==
    [c EXCEPT !.state.notifications =
                  TrimFront(Append(@, Notification(message, level, c.now))),
              !.now = @ + 1,
              !.emitted = Append(@, level)]

dismiss_notification(st) ==
    [st EXCEPT !.notifications = IF @ = <<>> THEN @ ELSE Tail(@)]

\* AppState::save through save_config: Err when the write fails
\* save_config(path, config): fs::write of the serialized config
save_config(dk, config) ==
    IF fs_ok THEN [ok |-> TRUE, disk |-> [exists |-> TRUE,
                                          content |-> to_string_pretty(config)]]
    ELSE [ok |-> FALSE, disk |-> dk]

\* AppState::save
save(c) ==
    LET w == save_config(c.disk, ConfigOf(c.state))
    IN IF w.ok THEN [c EXCEPT !.disk = w.disk] ELSE [c EXCEPT !.err = TRUE]

\* An arm that would leave saving to an explicit SaveConfig
save_if_auto_skipping(c) == c

\* if self.state.auto_save { self.state.save()?; }
save_if_auto(c) == IF c.state.auto_save THEN save(c) ELSE c

(* --------------------------- Operation Registry ------------------------ *)
\* AsyncOperation::new: status InProgress
AsyncOperation(id, kind, target) ==
    [id |-> id, operation_type |-> <<kind, target>>, status |-> "InProgress",
     error |-> ""]

complete(op) == [op EXCEPT !.status = "Completed", !.error = ""]
fail(op, error) == [op EXCEPT !.status = "Failed", !.error = error]

(* ------------------------------ spawners ------------------------------- *)
\* A spawn that would refuse work on a target that has a task in flight
spawn_deduplicated(c, kind, target, clones) ==
    IF \E t \in tasks : t.target = target THEN c
    ELSE [c EXCEPT !.spawned = Append(@, [op_id |-> c.next_op, kind |-> kind,
                                          target |-> target, clones |-> clones]),
                   !.next_op = @ + 1]

\* A spawn that would enter the operation into the registry
spawn_registering(c, kind, target, clones) ==
    [c EXCEPT !.spawned = Append(@, [op_id |-> c.next_op, kind |-> kind,
                                      target |-> target, clones |-> clones]),
              !.state.pending_operations =
                  Append(@, AsyncOperation(c.next_op, kind, target)),
              !.next_op = @ + 1]

\* tokio::spawn of a task that owns `clones` and a fresh op_id.  Nothing is
\* pushed onto state.pending_operations.
spawn(c, kind, target, clones) ==
    [c EXCEPT !.spawned = Append(@, [op_id |-> c.next_op, kind |-> kind,
                                      target |-> target, clones |-> clones]),
              !.next_op = @ + 1]

\* A deploy that would not resolve the site's domain before spawning
spawn_deploy_site_without_domain(c, site_id) ==
    LET site == get_site(c.state, site_id)
        node == get_node_for_site(c.state, site_id)
    IN IF site = None \/ node = None THEN c
       ELSE spawn(c, "DeploySite", site_id, <<site[1], node[1]>>)

\* The AsyncOperation built in spawn_deploy_site is a local that is dropped.
spawn_deploy_site(c, site_id) ==
    LET site == get_site(c.state, site_id)
        domain == get_domain_for_site(c.state, site_id)
        node == get_node_for_site(c.state, site_id)
    IN IF site = None \/ domain = None \/ node = None THEN c
       ELSE spawn(c, "DeploySite", site_id, <<site[1], domain[1], node[1]>>)

\* delete, stop, restart, logs, metrics: only the site's node is resolved
\* A spawner that would not look the site's node up first
spawn_for_site_unchecked(c, kind, site_id) == spawn(c, kind, site_id, <<>>)

spawn_for_site_node(c, kind, site_id) ==
    LET node == get_node_for_site(c.state, site_id)
    IN IF node = None THEN c ELSE spawn(c, kind, site_id, <<node[1]>>)

\* A delete that would drop the site from AppState at the request already
spawn_delete_site_optimistic(c, site_id) ==
    [spawn_for_site_node(c, "DeleteSite", site_id)
       EXCEPT !.state = remove_site(@, site_id)]

spawn_delete_site(c, site_id) == spawn_for_site_node(c, "DeleteSite", site_id)
spawn_stop_site(c, site_id) == spawn_for_site_node(c, "StopSite", site_id)
spawn_restart_site(c, site_id) == spawn_for_site_node(c, "RestartSite", site_id)
spawn_fetch_logs(c, site_id) == spawn_for_site_node(c, "FetchLogs", site_id)
spawn_fetch_metrics(c, site_id) == spawn_for_site_node(c, "FetchMetrics", site_id)

\* A provider test that would let Manual domains through
is_manual_dns_never(domain) == domain.dns_provider = "None"

is_manual_dns(domain) == domain.dns_provider = "Manual"

spawn_sync_dns(c, domain_id) ==
    LET domain == get_domain(c.state, domain_id)
    IN IF domain = None THEN c
       ELSE IF is_manual_dns(domain[1]) THEN c
       ELSE spawn(c, "SyncDns", domain_id, <<domain[1]>>)

spawn_for_node(c, kind, node_id) ==
    LET node == get_node(c.state, node_id)
    IN IF node = None THEN c ELSE spawn(c, kind, node_id, <<node[1]>>)

spawn_node_health_check(c, node_id) == spawn_for_node(c, "NodeHealthCheck", node_id)
spawn_fetch_node_stats(c, node_id) == spawn_for_node(c, "FetchNodeStats", node_id)

(* --------------------------- config loader ----------------------------- *)
\* A loader that would hand out the default without writing it
load_config_without_write(dk) ==
    IF ~dk.exists
    THEN [ok |-> TRUE, config |-> ConfigDefault, disk |-> dk]
    ELSE [ok |-> TRUE, config |-> from_str(dk.content), disk |-> dk]

\* load_config: an absent file is replaced by the default, written first
load_config(dk) ==
    IF ~dk.exists
    THEN LET w == save_config(dk, ConfigDefault)
         IN [ok |-> w.ok, config |-> ConfigDefault, disk |-> w.disk]
    ELSE [ok |-> TRUE, config |-> from_str(dk.content), disk |-> dk]

(* ------------------------------ result merge --------------------------- *)
\* if let Some(site) = get_site_mut(id) { site.status = Running }
set_site_running(st, site_id) ==
    LET p == Position(st.sites, site_id)
    IN IF p = 0 THEN st ELSE [st EXCEPT !.sites[p].status = "Running"]

\* Node::update_health
update_health(node, status, docker_info, traefik_info, at) ==
    [node EXCEPT !.status = status, !.docker_info = docker_info,
                 !.traefik_info = traefik_info, !.last_health_check = Some(at)]

\* A merge that would treat fetched logs or metrics as proof that the site
\* runs
handle_async_result_logs_as_running(c, r) ==
    CASE r.kind \in {"SiteDeployed", "SiteUpdated"} ->
           add_notification([c EXCEPT !.state = set_site_running(@, r.id)],
                            <<"Site deployed successfully">>, "Success")
      [] r.kind \in {"Logs", "Metrics"} ->
           [c EXCEPT !.state = set_site_running(@, r.id)]
      [] OTHER -> c

handle_async_result(c, r) ==
    CASE r.kind = "SiteDeployed" ->
           add_notification([c EXCEPT !.state = set_site_running(@, r.id)],
                            <<"Site deployed successfully">>, "Success")
      [] r.kind = "SiteUpdated" ->
           add_notification([c EXCEPT !.state = set_site_running(@, r.id)],
                            <<"Site updated successfully">>, "Success")
      [] r.kind = "SiteDeleted" ->
           add_notification([c EXCEPT !.state = remove_site(@, r.id)],
                            <<"Site deleted successfully">>, "Success")
      [] r.kind = "DnsSynced" ->
           LET p == Position(c.state.domains, r.id)
               c1 == IF p = 0 THEN c
                     ELSE [c EXCEPT !.state.domains[p].dns_records = r.records]
           IN add_notification(c1, <<"DNS records synced successfully">>, "Success")
      [] r.kind = "NodeHealth" ->
           LET p == Position(c.state.nodes, r.id)
           IN IF p = 0 THEN c
              ELSE [c EXCEPT !.state.nodes[p] =
                                 update_health(@, r.status, r.docker_info,
                                               r.traefik_info, c.now),
                             !.now = @ + 1]
      [] r.kind = "NodeStats" ->
           LET p == Position(c.state.nodes, r.id)
           IN IF p = 0 THEN c
              ELSE [c EXCEPT !.state.nodes[p].docker_info = Some(r.docker_info),
                             !.state.nodes[p].traefik_info = Some(r.traefik_info)]
      [] OTHER -> c

\* A handler that would also merge a failure into the inventory, marking the
\* operation's site as Failed
async_operation_completed_marking_site(c, op_id, result) ==
    LET p == Position(c.state.pending_operations, op_id)
    IN IF p = 0 THEN c
       ELSE IF result.ok
            THEN handle_async_result(
                     [c EXCEPT !.state.pending_operations[p] = complete(@)],
                     result.payload)
            ELSE LET target == c.state.pending_operations[p].operation_type[2]
                     q == Position(c.state.sites, target)
                     c1 == IF q = 0 THEN c
                           ELSE [c EXCEPT !.state.sites[q].status = "Failed"]
                 IN add_notification(
                        [c1 EXCEPT !.state.pending_operations[p] = fail(@, result.error)],
                        <<"Operation failed: ", result.error>>, "Error")

\* A handler that would start the failed operation again under its id
async_operation_completed_retrying(c, op_id, result) ==
    LET p == Position(c.state.pending_operations, op_id)
    IN IF p = 0 THEN c
       ELSE IF result.ok
            THEN handle_async_result(
                     [c EXCEPT !.state.pending_operations[p] = complete(@)],
                     result.payload)
            ELSE LET op == c.state.pending_operations[p]
                     c1 == add_notification(
                               [c EXCEPT !.state.pending_operations[p] =
                                             fail(@, result.error)],
                               <<"Operation failed: ", result.error>>, "Error")
                 IN [c1 EXCEPT !.spawned =
                                   Append(@, [op_id |-> op_id,
                                              kind |-> op.operation_type[1],
                                              target |-> op.operation_type[2],
                                              clones |-> <<>>])]

\* Action::AsyncOperationCompleted(op_id, result)
async_operation_completed(c, op_id, result) ==
    LET p == Position(c.state.pending_operations, op_id)
    IN IF p = 0 THEN c
       ELSE IF result.ok
            THEN handle_async_result(
                     [c EXCEPT !.state.pending_operations[p] = complete(@)],
                     result.payload)
            ELSE add_notification(
                     [c EXCEPT !.state.pending_operations[p] = fail(@, result.error)],
                     <<"Operation failed: ", result.error>>, "Error")

(* ------------------------------- selection ----------------------------- *)
\* A cursor that would stop at the last row instead of wrapping
select_next_saturating(st) ==
    CASE st.current_screen = "SitesList" /\ st.sites /= <<>> ->
           [st EXCEPT !.selection_state.sites_list_index =
                          IF @ + 1 < Len(st.sites) THEN @ + 1 ELSE @]
      [] st.current_screen = "DomainsList" /\ st.domains /= <<>> ->
           [st EXCEPT !.selection_state.domains_list_index =
                          IF @ + 1 < Len(st.domains) THEN @ + 1 ELSE @]
      [] st.current_screen = "NodesList" /\ st.nodes /= <<>> ->
           [st EXCEPT !.selection_state.nodes_list_index =
                          IF @ + 1 < Len(st.nodes) THEN @ + 1 ELSE @]
      [] OTHER -> st

\* A SelectNext that would advance the cursor of every list, shown or not
select_next_every_list(st) ==
    IF st.current_screen \notin {"SitesList", "DomainsList", "NodesList"} THEN st
    ELSE [st EXCEPT
            !.selection_state.sites_list_index =
                IF st.sites = <<>> THEN @ ELSE (@ + 1) % Len(st.sites),
            !.selection_state.domains_list_index =
                IF st.domains = <<>> THEN @ ELSE (@ + 1) % Len(st.domains),
            !.selection_state.nodes_list_index =
                IF st.nodes = <<>> THEN @ ELSE (@ + 1) % Len(st.nodes)]

select_next(st) ==
    CASE st.current_screen = "SitesList" /\ st.sites /= <<>> ->
           [st EXCEPT !.selection_state.sites_list_index = (@ + 1) % Len(st.sites)]
      [] st.current_screen = "DomainsList" /\ st.domains /= <<>> ->
           [st EXCEPT !.selection_state.domains_list_index = (@ + 1) % Len(st.domains)]
      [] st.current_screen = "NodesList" /\ st.nodes /= <<>> ->
           [st EXCEPT !.selection_state.nodes_list_index = (@ + 1) % Len(st.nodes)]
      [] OTHER -> st

\* A cursor that would stop at the first row instead of wrapping
select_previous_saturating(st) ==
    CASE st.current_screen = "SitesList" /\ st.sites /= <<>> ->
           [st EXCEPT !.selection_state.sites_list_index = IF @ > 0 THEN @ - 1 ELSE @]
      [] st.current_screen = "DomainsList" /\ st.domains /= <<>> ->
           [st EXCEPT !.selection_state.domains_list_index = IF @ > 0 THEN @ - 1 ELSE @]
      [] st.current_screen = "NodesList" /\ st.nodes /= <<>> ->
           [st EXCEPT !.selection_state.nodes_list_index = IF @ > 0 THEN @ - 1 ELSE @]
      [] OTHER -> st

select_previous(st) ==
    CASE st.current_screen = "SitesList" /\ st.sites /= <<>> ->
           [st EXCEPT !.selection_state.sites_list_index =
                          (@ + Len(st.sites) - 1) % Len(st.sites)]
      [] st.current_screen = "DomainsList" /\ st.domains /= <<>> ->
           [st EXCEPT !.selection_state.domains_list_index =
                          (@ + Len(st.domains) - 1) % Len(st.domains)]
      [] st.current_screen = "NodesList" /\ st.nodes /= <<>> ->
           [st EXCEPT !.selection_state.nodes_list_index =
                          (@ + Len(st.nodes) - 1) % Len(st.nodes)]
      [] OTHER -> st

(* -------------------------------- update ------------------------------- *)
\* App::update: one Action applied to the context c
update(c, a) ==
    CASE a.type = "NavigateTo" -> [c EXCEPT !.state = navigate_to(@, a.screen)]
      [] a.type = "NavigateBack" -> [c EXCEPT !.state = navigate_back(@)]
      [] a.type = "CreateSite" ->
           LET c1 == [c EXCEPT !.state = add_site(@, a.site)]
               c2 == add_notification(c1, <<"Site created successfully">>, "Success")
               c3 == spawn_deploy_site(c2, a.site.id)
           IN save_if_auto(c3)
      [] a.type = "UpdateSite" ->
           LET p == Position(c.state.sites, a.id)
           IN IF p = 0 THEN c
              ELSE LET c1 == [c EXCEPT !.state.sites[p] = a.site]
                       c2 == add_notification(c1, <<"Site updated successfully">>,
                                              "Success")
                       c3 == spawn_deploy_site(c2, a.id)
                   IN save_if_auto(c3)
      [] a.type = "DeleteSite" -> spawn_delete_site(c, a.id)
      [] a.type = "DeploySite" -> spawn_deploy_site(c, a.id)
      [] a.type = "StopSite" -> spawn_stop_site(c, a.id)
      [] a.type = "RestartSite" -> spawn_restart_site(c, a.id)
      [] a.type = "CreateDomain" ->
           save_if_auto(add_notification([c EXCEPT !.state = add_domain(@, a.domain)],
                                         <<"Domain created successfully">>, "Success"))
      [] a.type = "DeleteDomain" ->
           save_if_auto(add_notification([c EXCEPT !.state = remove_domain(@, a.id)],
                                         <<"Domain deleted successfully">>, "Success"))
      [] a.type = "AddDnsRecord" ->
           LET p == Position(c.state.domains, a.id)
           IN IF p = 0 THEN c
              ELSE save_if_auto(add_notification(
                       [c EXCEPT !.state.domains[p].dns_records = Append(@, a.record)],
                       <<"DNS record added">>, "Success"))
      [] a.type = "UpdateDnsRecord" ->
           LET p == Position(c.state.domains, a.id)
           IN IF p = 0 THEN c
              ELSE IF ~(a.index < Len(c.state.domains[p].dns_records)) THEN c
              ELSE save_if_auto(add_notification(
                       [c EXCEPT !.state.domains[p].dns_records[a.index + 1] = a.record],
                       <<"DNS record updated">>, "Success"))
      [] a.type = "DeleteDnsRecord" ->
           LET p == Position(c.state.domains, a.id)
           IN IF p = 0 THEN c
              ELSE IF ~(a.index < Len(c.state.domains[p].dns_records)) THEN c
              ELSE save_if_auto(add_notification(
                       [c EXCEPT !.state.domains[p].dns_records = RemoveAt(@, a.index)],
                       <<"DNS record deleted">>, "Success"))
      [] a.type = "SyncDnsRecords" -> spawn_sync_dns(c, a.id)
      [] a.type = "AddNode" ->
           save_if_auto(add_notification([c EXCEPT !.state = add_node(@, a.node)],
                                         <<"Node added successfully">>, "Success"))
      [] a.type = "UpdateNode" ->
           LET p == Position(c.state.nodes, a.id)
           IN IF p = 0 THEN c
              ELSE save_if_auto(add_notification(
                       [c EXCEPT !.state.nodes[p] = a.node],
                       <<"Node updated successfully">>, "Success"))
      [] a.type = "RemoveNode" ->
           save_if_auto(add_notification([c EXCEPT !.state = remove_node(@, a.id)],
                                         <<"Node removed successfully">>, "Success"))
      [] a.type = "CheckNodeHealth" -> spawn_node_health_check(c, a.id)
      [] a.type = "FetchNodeStats" -> spawn_fetch_node_stats(c, a.id)
      [] a.type = "FetchLogs" -> spawn_fetch_logs(c, a.id)
      [] a.type = "FetchMetrics" -> spawn_fetch_metrics(c, a.id)
      [] a.type = "AsyncOperationCompleted" ->
           async_operation_completed(c, a.op_id, a.result)
      [] a.type = "ShowNotification" ->
           \* push_back without the trim of add_notification
           [c EXCEPT !.state.notifications = Append(@, a.notification),
                     !.emitted = Append(@, a.notification.level)]
      [] a.type = "DismissNotification" ->
           [c EXCEPT !.state = dismiss_notification(@)]
      [] a.type = "SaveConfig" ->
           LET c1 == save(c)
           IN IF c1.err THEN c1
              ELSE add_notification(c1, <<"Configuration saved">>, "Success")
      [] a.type = "LoadConfig" ->
           LET r == load_config(c.disk)
           IN IF ~r.ok THEN [c EXCEPT !.err = TRUE]
              ELSE add_notification(
                       [c EXCEPT !.state = StateOf(r.config), !.disk = r.disk],
                       <<"Configuration reloaded">>, "Info")
      [] a.type = "Quit" ->
           LET c1 == save_if_auto(c)
           IN IF c1.err THEN c1 ELSE [c1 EXCEPT !.state.should_quit = TRUE]
      \* SelectItem, NextFormField, PreviousFormField, None
      [] a.type = "SelectNext" -> [c EXCEPT !.state = select_next(@)]
      [] a.type = "SelectPrevious" -> [c EXCEPT !.state = select_previous(@)]
      [] OTHER -> c

(* ---------------------------- background tasks ------------------------- *)
RecordLists == {<<"r1">>, <<"r2", "r1">>}

\* A factory that would build a provider for every configuration
create_provider_any(config) ==
    [ok |-> TRUE, provider |-> Some("CloudflareProvider"), error |-> ""]

\* create_provider: only Cloudflare yields a provider; the other two bail
create_provider(config) ==
    CASE config = "Cloudflare" ->
           [ok |-> TRUE, provider |-> Some("CloudflareProvider"), error |-> ""]
      [] config = "Route53" ->
           [ok |-> FALSE, provider |-> None,
            error |-> "Route53 provider not yet implemented"]
      [] OTHER ->
           [ok |-> FALSE, provider |-> None,
            error |-> "Manual DNS provider does not support API operations"]

\* What the remote collaborator can answer to the calls of task t; for a DNS
\* sync, calls lists the provider operations invoked
Outcomes(t) ==
    CASE t.kind = "SyncDns" ->
           IF create_provider(t.clones[1].dns_provider).ok
           THEN {[ok |-> TRUE, records |-> r, calls |-> <<"list_records">>]
                    : r \in RecordLists}
                \cup {[ok |-> FALSE, error |-> e, calls |-> <<"list_records">>]
                         : e \in Errors}
           ELSE {[ok |-> FALSE, calls |-> <<>>,
                  error |-> create_provider(t.clones[1].dns_provider).error]}
      [] t.kind = "NodeHealthCheck" ->
           {[ok |-> TRUE, status |-> "Online", docker |-> Some("docker"),
             traefik |-> Some("traefik")],
            [ok |-> TRUE, status |-> "Degraded", docker |-> None, traefik |-> None]}
           \cup {[ok |-> FALSE, error |-> e] : e \in Errors}
      [] t.kind = "FetchNodeStats" ->
           \* both calls are awaited in turn, whatever the first returned
           {[docker_ok |-> d, traefik_ok |-> x,
             calls |-> <<"get_docker_info", "get_traefik_info">>]
               : d \in BOOLEAN, x \in BOOLEAN}
      [] OTHER ->
           {[ok |-> TRUE]} \cup {[ok |-> FALSE, error |-> e] : e \in Errors}

Completed(op_id, result) ==
    [type |-> "AsyncOperationCompleted", op_id |-> op_id, result |-> result]

Ok(payload) == [ok |-> TRUE, payload |-> payload]
Err(error) == [ok |-> FALSE, error |-> error]

\* Tasks that would report a stop or restart as a completion of the operation
task_action_stop_completes(t, o, at) ==
    CASE t.kind = "FetchNodeStats" ->
           IF o.docker_ok /\ o.traefik_ok
           THEN Completed(t.op_id, Ok([kind |-> "NodeStats", id |-> t.target,
                                       docker_info |-> "docker",
                                       traefik_info |-> "traefik"]))
           ELSE Completed(t.op_id, Err("Failed to fetch node stats"))
      [] t.kind /= "FetchNodeStats" /\ ~o.ok -> Completed(t.op_id, Err(o.error))
      [] t.kind = "DeploySite" ->
           Completed(t.op_id, Ok([kind |-> "SiteDeployed", id |-> t.target]))
      [] t.kind = "DeleteSite" ->
           Completed(t.op_id, Ok([kind |-> "SiteDeleted", id |-> t.target]))
      [] t.kind = "StopSite" ->
           Completed(t.op_id, Ok([kind |-> "SiteStopped", id |-> t.target]))
      [] t.kind = "RestartSite" ->
           Completed(t.op_id, Ok([kind |-> "SiteUpdated", id |-> t.target]))
      [] t.kind = "SyncDns" ->
           Completed(t.op_id, Ok([kind |-> "DnsSynced", id |-> t.target,
                                  records |-> o.records]))
      [] t.kind = "NodeHealthCheck" ->
           Completed(t.op_id, Ok([kind |-> "NodeHealth", id |-> t.target,
                                  status |-> o.status, docker_info |-> o.docker,
                                  traefik_info |-> o.traefik]))
      [] t.kind = "FetchLogs" ->
           Completed(t.op_id, Ok([kind |-> "Logs", id |-> t.target]))
      [] t.kind = "FetchMetrics" ->
           Completed(t.op_id, Ok([kind |-> "Metrics", id |-> t.target]))

\* A stats task that would report what the docker call returned although the
\* traefik call failed
task_action_partial_stats(t, o, at) ==
    CASE t.kind = "FetchNodeStats" ->
           IF o.docker_ok
           THEN Completed(t.op_id, Ok([kind |-> "NodeStats", id |-> t.target,
                                       docker_info |-> "docker",
                                       traefik_info |-> IF o.traefik_ok THEN "traefik"
                                                        ELSE "unknown"]))
           ELSE Completed(t.op_id, Err("Failed to fetch node stats"))
      [] t.kind /= "FetchNodeStats" /\ ~o.ok -> Completed(t.op_id, Err(o.error))
      [] t.kind = "DeploySite" ->
           Completed(t.op_id, Ok([kind |-> "SiteDeployed", id |-> t.target]))
      [] t.kind = "DeleteSite" ->
           Completed(t.op_id, Ok([kind |-> "SiteDeleted", id |-> t.target]))
      [] t.kind = "StopSite" ->
           [type |-> "ShowNotification",
            notification |-> Notification(<<"Site stopped">>, "Success", at)]
      [] t.kind = "RestartSite" ->
           [type |-> "ShowNotification",
            notification |-> Notification(<<"Site restarted">>, "Success", at)]
      [] t.kind = "SyncDns" ->
           Completed(t.op_id, Ok([kind |-> "DnsSynced", id |-> t.target,
                                  records |-> o.records]))
      [] t.kind = "NodeHealthCheck" ->
           Completed(t.op_id, Ok([kind |-> "NodeHealth", id |-> t.target,
                                  status |-> o.status, docker_info |-> o.docker,
                                  traefik_info |-> o.traefik]))
      [] t.kind = "FetchLogs" ->
           Completed(t.op_id, Ok([kind |-> "Logs", id |-> t.target]))
      [] t.kind = "FetchMetrics" ->
           Completed(t.op_id, Ok([kind |-> "Metrics", id |-> t.target]))

\* The one Action the task builds from the outcome o of its remote call(s);
\* `at` is Utc::now() when the task builds a Notification
task_action(t, o, at) ==
    CASE t.kind = "FetchNodeStats" ->
           IF o.docker_ok /\ o.traefik_ok
           THEN Completed(t.op_id, Ok([kind |-> "NodeStats", id |-> t.target,
                                       docker_info |-> "docker",
                                       traefik_info |-> "traefik"]))
           ELSE Completed(t.op_id, Err("Failed to fetch node stats"))
      [] t.kind /= "FetchNodeStats" /\ ~o.ok -> Completed(t.op_id, Err(o.error))
      [] t.kind = "DeploySite" ->
           Completed(t.op_id, Ok([kind |-> "SiteDeployed", id |-> t.target]))
      [] t.kind = "DeleteSite" ->
           Completed(t.op_id, Ok([kind |-> "SiteDeleted", id |-> t.target]))
      [] t.kind = "StopSite" ->
           [type |-> "ShowNotification",
            notification |-> Notification(<<"Site stopped">>, "Success", at)]
      [] t.kind = "RestartSite" ->
           [type |-> "ShowNotification",
            notification |-> Notification(<<"Site restarted">>, "Success", at)]
      [] t.kind = "SyncDns" ->
           Completed(t.op_id, Ok([kind |-> "DnsSynced", id |-> t.target,
                                  records |-> o.records]))
      [] t.kind = "NodeHealthCheck" ->
           Completed(t.op_id, Ok([kind |-> "NodeHealth", id |-> t.target,
                                  status |-> o.status, docker_info |-> o.docker,
                                  traefik_info |-> o.traefik]))
      [] t.kind = "FetchLogs" ->
           Completed(t.op_id, Ok([kind |-> "Logs", id |-> t.target]))
      [] t.kind = "FetchMetrics" ->
           Completed(t.op_id, Ok([kind |-> "Metrics", id |-> t.target]))

\* The Actions a task passes to tx.send over its lifetime: one, on every path
IsCompletion(a) == a.type = "AsyncOperationCompleted"

\* A task that would return without sending when its remote call fails
task_sends_only_on_success(t, o, at) ==
    IF IsCompletion(task_action(t, o, at)) /\ ~task_action(t, o, at).result.ok
    THEN <<>>
    ELSE <<task_action(t, o, at)>>

task_sends(t, o, at) == <<task_action(t, o, at)>>

\* Whether building the task's Action reads the clock
reads_clock(t, o) == t.kind \in {"StopSite", "RestartSite"} /\ o.ok

(* ------------------------------ input mapper --------------------------- *)
Key(code) == [kind |-> "Press", code |-> code, modifiers |-> "NONE"]
NoAction == [type |-> "None"]
GoTo(screen) == [type |-> "NavigateTo", screen |-> screen]

handle_list_keys(code, create) ==
    CASE code \in {"Up", "k"} -> [type |-> "SelectPrevious"]
      [] code \in {"Down", "j"} -> [type |-> "SelectNext"]
      [] code = "c" -> GoTo(create)
      [] OTHER -> NoAction

handle_dashboard_keys(code) ==
    CASE code \in {"1", "d"} -> GoTo("Dashboard")
      [] code \in {"2", "s"} -> GoTo("SitesList")
      [] code = "3" -> GoTo("DomainsList")
      [] code \in {"4", "n"} -> GoTo("NodesList")
      [] code = "r" -> [type |-> "LoadConfig"]
      [] OTHER -> NoAction

handle_key_event(key, current_screen) ==
    CASE (key.code = "c" /\ key.modifiers = "CONTROL")
         \/ (key.code = "q" /\ key.modifiers = "NONE") -> [type |-> "Quit"]
      [] key.code = "?" /\ key.modifiers = "NONE" -> GoTo("Help")
      [] key.code = "Esc" -> [type |-> "NavigateBack"]
      [] OTHER ->
           CASE current_screen = "Dashboard" -> handle_dashboard_keys(key.code)
             [] current_screen = "SitesList" -> handle_list_keys(key.code, "SiteCreate")
             [] current_screen = "DomainsList" ->
                  handle_list_keys(key.code, "DomainCreate")
             [] current_screen = "NodesList" -> handle_list_keys(key.code, "NodeCreate")
             [] OTHER -> NoAction

\* handle_event: only key presses are translated
handle_event(event, current_screen) ==
    IF event.kind = "Press" THEN handle_key_event(event, current_screen)
    ELSE NoAction

(* -------------------------------- history ------------------------------ *)
\* last: the update applied last: its source, Action, the levels of the
\*       notifications it pushed, whether it returned Err and, for an Action
\*       taken from the channel, the Action type that spawned its sender; and
\*       the operations whose tasks were running when it was applied
\* origin[op]: the Action type whose update spawned operation op, while the
\*       operation's task runs or its Action waits in the channel
\* sends[op]: how many Actions operation op's task has sent
\* senders: the operation that sent each Action waiting in the channel
\* delivered[op]: how many Actions of operation op the loop has applied
\* pressed, read, handled: terminal events produced, read by a blocking
\*       reader, and passed to handle_event
\* nexts, start: the number of SelectNext applied since the last other
\*       Action, and the cursor of the current list when that run began
\* pushes: the number of add_notification pushes applied to the queue that
\*       was empty at construction, or -1 once the queue has also been
\*       changed otherwise (ShowNotification, DismissNotification, LoadConfig)
\* The list shown by the current screen and its cursor
CurrentLen(st) ==
    CASE st.current_screen = "SitesList" -> Len(st.sites)
      [] st.current_screen = "DomainsList" -> Len(st.domains)
      [] st.current_screen = "NodesList" -> Len(st.nodes)
      [] OTHER -> 0

CurrentIndex(st) ==
    CASE st.current_screen = "SitesList" -> st.selection_state.sites_list_index
      [] st.current_screen = "DomainsList" -> st.selection_state.domains_list_index
      [] st.current_screen = "NodesList" -> st.selection_state.nodes_list_index
      [] OTHER -> 0

HistInit ==
    [last |-> [src |-> "none", action |-> NoAction, emitted |-> <<>>, err |-> FALSE,
               origin |-> "none", running |-> {}],
     origin |-> [op \in 1..(MaxOps + 1) |-> "none"],
     sends |-> [op \in 1..(MaxOps + 1) |-> 0],
     senders |-> <<>>,
     delivered |-> [op \in 1..(MaxOps + 1) |-> 0],
     pressed |-> 0, read |-> 0, handled |-> 0,
     nexts |-> 0, start |-> 0, pushes |-> 0]

OpsOf(spawned) == {spawned[i].op_id : i \in 1..Len(spawned)}

(* --------------------------------- steps ------------------------------- *)
\* A loop that would go on to the next iteration without looking at the quit
\* flag
CommitWithoutQuitCheck(c, a, src) ==
    /\ state' = c.state
    /\ disk' = c.disk
    /\ now' = c.now
    /\ next_op' = c.next_op
    /\ tasks' = tasks \cup Range(c.spawned)
    /\ loop' = IF c.err THEN "failed" ELSE "running"
    /\ hist' = [hist EXCEPT
                  !.last = [src |-> src, action |-> a, emitted |-> c.emitted,
                            err |-> c.err,
                            origin |-> IF src = "channel"
                                       THEN hist.origin[Head(hist.senders)]
                                       ELSE "none",
                            running |-> {t.op_id : t \in tasks}],
                  !.origin = [op \in DOMAIN @ |->
                                 IF op \in OpsOf(c.spawned) THEN a.type
                                 ELSE IF src = "channel" /\ op = Head(hist.senders)
                                      THEN "none" ELSE @[op]],
                  !.senders = IF src = "channel" THEN Tail(@) ELSE @,
                  !.delivered = IF src = "channel"
                                THEN [@ EXCEPT ![Head(hist.senders)] = @ + 1] ELSE @,
                  !.read = IF src = "terminal" THEN @ + 1 ELSE @,
                  !.handled = IF src = "terminal" THEN @ + 1 ELSE @,
                  !.nexts = IF a.type = "SelectNext" THEN @ + 1 ELSE 0,
                  !.start = IF a.type = "SelectNext" THEN @ ELSE CurrentIndex(c.state),
                  !.pushes = IF \/ @ = -1
                                \/ a.type \in {"ShowNotification", "DismissNotification",
                                               "LoadConfig"}
                             THEN -1 ELSE @ + Len(c.emitted)]

\* self.update(action)? inside run: the context's result becomes the state;
\* an Err ends run, a set quit flag breaks the loop
Commit(c, a, src) ==
    /\ state' = c.state
    /\ disk' = c.disk
    /\ now' = c.now
    /\ next_op' = c.next_op
    /\ tasks' = tasks \cup Range(c.spawned)
    /\ loop' = IF c.err THEN "failed"
               ELSE IF c.state.should_quit THEN "stopped" ELSE "running"
    /\ hist' = [hist EXCEPT
                  !.last = [src |-> src, action |-> a, emitted |-> c.emitted,
                            err |-> c.err,
                            origin |-> IF src = "channel"
                                       THEN hist.origin[Head(hist.senders)]
                                       ELSE "none",
                            running |-> {t.op_id : t \in tasks}],
                  !.origin = [op \in DOMAIN @ |->
                                 IF op \in OpsOf(c.spawned) THEN a.type
                                 ELSE IF src = "channel" /\ op = Head(hist.senders)
                                      THEN "none" ELSE @[op]],
                  !.senders = IF src = "channel" THEN Tail(@) ELSE @,
                  !.delivered = IF src = "channel"
                                THEN [@ EXCEPT ![Head(hist.senders)] = @ + 1] ELSE @,
                  !.read = IF src = "terminal" THEN @ + 1 ELSE @,
                  !.handled = IF src = "terminal" THEN @ + 1 ELSE @,
                  !.nexts = IF a.type = "SelectNext" THEN @ + 1 ELSE 0,
                  !.start = IF a.type = "SelectNext" THEN @ ELSE CurrentIndex(c.state),
                  !.pushes = IF \/ @ = -1
                                \/ a.type \in {"ShowNotification", "DismissNotification",
                                               "LoadConfig"}
                             THEN -1 ELSE @ + Len(c.emitted)]

\* The bounds of the exploration
Bounded == now' <= MaxClock /\ next_op' <= MaxOps + 1

\* update applied to an intent a of the caller (the input branch of run with
\* the translation of the event left to the caller); clk is the clock after
\* the caller built a
ApplyAt(a, clk) ==
    /\ loop = "running"
    /\ Commit(update(Ctx(state, disk, clk, next_op), a), a, "input")
    /\ UNCHANGED <<fs_ok, action_rx, term, orphans>>

Dispatch(a) == ApplyAt(a, now) /\ Bounded

\* A task that would write its result into AppState itself besides sending
TaskFinishWritesState(t, o) ==
    /\ loop = "running"
    /\ t \in tasks
    /\ o \in Outcomes(t)
    /\ tasks' = tasks \ {t}
    /\ action_rx' = action_rx \o task_sends(t, o, now)
    /\ state' = [state EXCEPT !.notifications =
                                 Append(@, Notification(<<"done">>, "Info", now))]
    /\ now' = IF reads_clock(t, o) THEN now + 1 ELSE now
    /\ now' <= MaxClock
    /\ hist' = [hist EXCEPT !.sends[t.op_id] = @ + Len(task_sends(t, o, now)),
                            !.senders = @ \o [i \in 1..Len(task_sends(t, o, now))
                                                  |-> t.op_id]]
    /\ UNCHANGED <<disk, fs_ok, next_op, loop, term, orphans>>

\* A background task finishes its remote call(s) with outcome o and sends
TaskFinish(t, o) ==
    /\ loop = "running"
    /\ t \in tasks
    /\ o \in Outcomes(t)
    /\ tasks' = tasks \ {t}
    /\ action_rx' = action_rx \o task_sends(t, o, now)
    /\ now' = IF reads_clock(t, o) THEN now + 1 ELSE now
    /\ now' <= MaxClock
    /\ hist' = [hist EXCEPT !.sends[t.op_id] = @ + Len(task_sends(t, o, now)),
                            !.senders = @ \o [i \in 1..Len(task_sends(t, o, now))
                                                  |-> t.op_id]]
    /\ UNCHANGED <<state, disk, fs_ok, next_op, loop, term, orphans>>

\* A receiver that would hand out the newest Action instead of the oldest
recv_newest(q) == q[Len(q)]

\* mpsc::UnboundedReceiver::recv: the oldest Action sent
recv(q) == Head(q)

\* run, branch `Some(action) = self.action_rx.recv()`: the Action is applied;
\* the spawn_blocking read of this iteration is dropped by select! and keeps
\* running detached
LoopRecv ==
    /\ loop = "running"
    /\ action_rx /= <<>>
    /\ Commit(update(Ctx(state, disk, now, next_op), recv(action_rx)),
              recv(action_rx), "channel")
    /\ action_rx' = Tail(action_rx)
    /\ orphans' = orphans + 1
    /\ UNCHANGED <<fs_ok, term>>

\* A key is pressed or another terminal event occurs
TerminalEvent(e) ==
    /\ loop = "running"
    /\ hist.pressed < MaxEvents
    /\ term' = Append(term, e)
    /\ hist' = [hist EXCEPT !.pressed = @ + 1]
    /\ UNCHANGED <<state, disk, fs_ok, now, next_op, tasks, action_rx, loop, orphans>>

\* run, branch `event_result = spawn_blocking(|| event::read())`: the read of
\* this iteration returns the oldest event, handle_event translates it and a
\* non-None Action is applied
LoopInput ==
    /\ loop = "running"
    /\ term /= <<>>
    /\ LET a == handle_event(Head(term), state.current_screen)
       IN Commit(IF a.type = "None" THEN Ctx(state, disk, now, next_op)
                 ELSE update(Ctx(state, disk, now, next_op), a), a, "terminal")
    /\ Bounded
    /\ term' = Tail(term)
    /\ UNCHANGED <<fs_ok, action_rx, orphans>>

\* A detached read left behind by an earlier select! returns the oldest
\* event; its JoinHandle is gone and the event is dropped with the result
OrphanRead ==
    /\ loop = "running"
    /\ orphans > 0
    /\ term /= <<>>
    /\ term' = Tail(term)
    /\ orphans' = orphans - 1
    /\ hist' = [hist EXCEPT !.read = @ + 1]
    /\ UNCHANGED <<state, disk, fs_ok, now, next_op, tasks, action_rx, loop>>

(* ------------------------------ construction --------------------------- *)
NoFile == [exists |-> FALSE]

\* The file holding a config written by save_config
File(config) == [exists |-> TRUE, content |-> to_string_pretty(config)]

InventoryConfig ==
    [version |-> PackageVersion,
     sites |-> <<Site("s1", "d1", "n1", "Inactive")>>,
     domains |-> <<Domain("d1", "Cloudflare", <<>>), Domain("d2", "Manual", <<>>)>>,
     nodes |-> <<Node("n1")>>,
     settings |-> SettingsDefault]

\* An inventory persisted by an earlier run
Inventory == File(InventoryConfig)

\* App::new(config_path) on the file dk: AppState::new loads it, the channel
\* is empty, nothing is spawned
InitOn(dk) ==
    /\ fs_ok = TRUE
    /\ disk = load_config(dk).disk
    /\ state = StateOf(load_config(dk).config)
    /\ now = 0
    /\ next_op = 1
    /\ tasks = {}
    /\ action_rx = <<>>
    /\ loop = "running"
    /\ term = <<>>
    /\ orphans = 0
    /\ hist = HistInit

Init == InitOn(Inventory)

(* ------------------------------- intents ------------------------------- *)
\* One action per Action variant: run is in its loop and update is applied
CreateSite(site) ==
    /\ loop = "running"
    /\ Dispatch([type |-> "CreateSite", site |-> site])
UpdateSite(id, site) ==
    /\ loop = "running"
    /\ Dispatch([type |-> "UpdateSite", id |-> id, site |-> site])
DeleteSite(id) ==
    /\ loop = "running"
    /\ Dispatch([type |-> "DeleteSite", id |-> id])
DeploySite(id) ==
    /\ loop = "running"
    /\ Dispatch([type |-> "DeploySite", id |-> id])
StopSite(id) ==
    /\ loop = "running"
    /\ Dispatch([type |-> "StopSite", id |-> id])
RestartSite(id) ==
    /\ loop = "running"
    /\ Dispatch([type |-> "RestartSite", id |-> id])
SyncDnsRecords(id) ==
    /\ loop = "running"
    /\ Dispatch([type |-> "SyncDnsRecords", id |-> id])
CheckNodeHealth(id) ==
    /\ loop = "running"
    /\ Dispatch([type |-> "CheckNodeHealth", id |-> id])
FetchNodeStats(id) ==
    /\ loop = "running"
    /\ Dispatch([type |-> "FetchNodeStats", id |-> id])
FetchLogs(id) ==
    /\ loop = "running"
    /\ Dispatch([type |-> "FetchLogs", id |-> id])
FetchMetrics(id) ==
    /\ loop = "running"
    /\ Dispatch([type |-> "FetchMetrics", id |-> id])
CreateDomain(domain) ==
    /\ loop = "running"
    /\ Dispatch([type |-> "CreateDomain", domain |-> domain])
DeleteDomain(id) ==
    /\ loop = "running"
    /\ Dispatch([type |-> "DeleteDomain", id |-> id])
AddNode(node) ==
    /\ loop = "running"
    /\ Dispatch([type |-> "AddNode", node |-> node])
UpdateNode(id, node) ==
    /\ loop = "running"
    /\ Dispatch([type |-> "UpdateNode", id |-> id, node |-> node])
RemoveNode(id) ==
    /\ loop = "running"
    /\ Dispatch([type |-> "RemoveNode", id |-> id])
LoadConfig ==
    /\ loop = "running"
    /\ Dispatch([type |-> "LoadConfig"])
Quit ==
    /\ loop = "running"
    /\ Dispatch([type |-> "Quit"])

Finish == \E t \in tasks : \E o \in Outcomes(t) : TaskFinish(t, o)

(* ------------------- Spec: the operation lifecycle --------------------- *)
\* Every async-triggering intent on the persisted inventory, the tasks and
\* the channel
Next ==
    \/ DeleteSite("s1")
    \/ DeploySite("s1")
    \/ StopSite("s1")
    \/ RestartSite("s1")
    \/ SyncDnsRecords("d1")
    \/ CheckNodeHealth("n1")
    \/ FetchNodeStats("n1")
    \/ FetchLogs("s1")
    \/ FetchMetrics("s1")
    \/ Quit
    \/ Finish
    \/ LoopRecv

Spec == Init /\ [][Next]_vars

(* ------------- SpecChurn: operations while the inventory changes ------- *)
NextChurn ==
    \/ CreateSite(Site("s2", "d1", "n1", "Inactive"))
    \/ DeleteSite("s1")
    \/ FetchNodeStats("n1")
    \/ RemoveNode("n1")
    \/ LoadConfig
    \/ Finish
    \/ LoopRecv

SpecChurn == Init /\ [][NextChurn]_vars

(* ------------ SpecRegistry: update on a populated registry ------------- *)
\* pending_operations is a public field of AppState that no spawner fills.
\* This specification applies update to states whose registry holds one entry
\* per operation id 1..MaxOps, in any status, to explore the
\* AsyncOperationCompleted handler where it finds its entry.
Statuses == {"InProgress", "Completed", "Failed"}

SeedEntry(id, status) ==
    [AsyncOperation(id, "DeploySite", "s1") EXCEPT
        !.status = status, !.error = IF status = "Failed" THEN "e1" ELSE ""]

InitRegistry ==
    \E seed \in [1..MaxOps -> Statuses] :
        /\ fs_ok = TRUE
        /\ disk = Inventory
        /\ state = [StateOf(load_config(Inventory).config) EXCEPT
                      !.pending_operations = [id \in 1..MaxOps |-> SeedEntry(id, seed[id])]]
        /\ now = 0
        /\ next_op = MaxOps + 1
        /\ tasks = {}
        /\ action_rx = <<>>
        /\ loop = "running"
        /\ term = <<>>
        /\ orphans = 0
        /\ hist = HistInit

Results ==
    {Ok([kind |-> "SiteDeployed", id |-> "s1"]),
     Ok([kind |-> "SiteDeleted", id |-> "s1"]),
     Ok([kind |-> "DnsSynced", id |-> "d1", records |-> <<"r1">>]),
     Ok([kind |-> "NodeStats", id |-> "n1", docker_info |-> "docker",
         traefik_info |-> "traefik"]),
     Ok([kind |-> "Logs", id |-> "s1"]),
     Ok([kind |-> "Metrics", id |-> "s1"]),
     Err("e1"), Err("e2")}

AsyncOperationCompleted(op_id, result) ==
    /\ loop = "running"
    /\ Dispatch(Completed(op_id, result))

NextRegistry ==
    \/ \E op \in 1..MaxOps : \E r \in Results : AsyncOperationCompleted(op, r)
    \/ LoadConfig

SpecRegistry == InitRegistry /\ [][NextRegistry]_vars

(* ------------------- SpecCrud: the inventory intents ------------------- *)
CrudSites ==
    {Site("s1", "d1", "n1", "Inactive"), Site("s2", "d1", "n1", "Inactive"),
     Site("s2", "d9", "n9", "Inactive")}

NextCrud ==
    \/ \E site \in CrudSites : CreateSite(site)
    \/ \E id \in SiteIds : \E site \in CrudSites : UpdateSite(id, site)
    \/ \E id \in DomainIds : CreateDomain(Domain(id, "Manual", <<>>))
    \/ \E id \in DomainIds : DeleteDomain(id)
    \/ \E id \in NodeIds : AddNode(Node(id))
    \/ \E id \in NodeIds : \E id2 \in NodeIds : UpdateNode(id, Node(id2))
    \/ \E id \in NodeIds : RemoveNode(id)

SpecCrud == Init /\ [][NextCrud]_vars

(* ------------------ SpecQueue: the notification queue ------------------ *)
\* The queue is filled through add_notification (SaveConfig); ShowNotification
\* is explored once the queue is within MaxOver of the cap.
QueueBounded ==
    /\ now' <= MaxNotifications + MaxOver + 1
    /\ Len(state'.notifications) <= MaxNotifications + MaxOver

QueueSaveConfig ==
    /\ loop = "running"
    /\ ApplyAt([type |-> "SaveConfig"], now)
    /\ QueueBounded

\* The caller builds Notification::success(..), reading the clock
QueueShowNotification ==
    /\ loop = "running"
    /\ Len(state.notifications) >= MaxNotifications - MaxOver
    /\ ApplyAt([type |-> "ShowNotification",
                notification |-> Notification(<<"Site stopped">>, "Success", now)],
               now + 1)
    /\ QueueBounded

QueueDismissNotification ==
    /\ loop = "running"
    /\ state.notifications /= <<>>
    /\ ApplyAt([type |-> "DismissNotification"], now)

NextQueue == QueueSaveConfig \/ QueueShowNotification \/ QueueDismissNotification

SpecQueue == Init /\ [][NextQueue]_vars

(* --------------------- SpecDisk: the config file ----------------------- *)
\* A config written by an operator who turned auto_save off
ManualSaveConfig ==
    [InventoryConfig EXCEPT !.settings.auto_save = FALSE, !.settings.theme = "dark"]

\* A node as a health check leaves it
NodeWithHealth ==
    update_health(Node("n1"), "Online", Some("docker"), None, 0)

InitDisk == \E dk \in {NoFile, Inventory, File(ManualSaveConfig)} : InitOn(dk)

SaveConfig ==
    /\ loop = "running"
    /\ Dispatch([type |-> "SaveConfig"])

\* The file system starts refusing writes (disk full, permissions)
WritesFail ==
    /\ loop = "running"
    /\ fs_ok
    /\ fs_ok' = FALSE
    /\ UNCHANGED <<state, disk, now, next_op, tasks, action_rx, loop, term, orphans, hist>>

\* The file system accepts writes again
WritesWork ==
    /\ loop = "running"
    /\ ~fs_ok
    /\ fs_ok' = TRUE
    /\ UNCHANGED <<state, disk, now, next_op, tasks, action_rx, loop, term, orphans, hist>>

\* The config file is deleted outside the program
FileRemoved ==
    /\ loop = "running"
    /\ disk.exists
    /\ disk' = NoFile
    /\ UNCHANGED <<state, fs_ok, now, next_op, tasks, action_rx, loop, term, orphans, hist>>

NextDisk ==
    \/ SaveConfig
    \/ LoadConfig
    \/ CreateDomain(Domain("d2", "Manual", <<>>))
    \/ UpdateNode("n1", NodeWithHealth)
    \/ Quit
    \/ WritesFail
    \/ WritesWork
    \/ FileRemoved

SpecDisk == InitDisk /\ [][NextDisk]_vars

(* ------------ SpecDns: the DNS providers and spawn guards -------------- *)
\* An inventory with one domain per provider variant
DnsConfig ==
    [InventoryConfig EXCEPT
        !.domains = <<Domain("d1", "Cloudflare", <<>>), Domain("d2", "Manual", <<>>),
                      Domain("d3", "Route53", <<>>)>>]

NextDns ==
    \/ \E id \in {"d1", "d2", "d3"} : SyncDnsRecords(id)
    \/ \E id \in SiteIds : DeleteSite(id)
    \/ Finish
    \/ LoopRecv

InitDns == InitOn(File(DnsConfig))

SpecDns == InitDns /\ [][NextDns]_vars

(* -------- SpecDangling: site intents after a domain or node is gone ----- *)
\* The intents that name a site
SiteIntents ==
    {"DeploySite", "DeleteSite", "StopSite", "RestartSite", "FetchLogs",
     "FetchMetrics"}

NextDangling ==
    \/ DeleteDomain("d1")
    \/ RemoveNode("n1")
    \/ DeploySite("s1")
    \/ DeleteSite("s1")
    \/ StopSite("s1")
    \/ RestartSite("s1")
    \/ FetchLogs("s1")
    \/ FetchMetrics("s1")

SpecDangling == Init /\ [][NextDangling]_vars

(* ------------------ SpecSelect: the selection cursors ------------------ *)
ListScreens == {"SitesList", "DomainsList", "NodesList"}

NavigateTo(screen) ==
    /\ loop = "running"
    /\ Len(state.previous_screen) < MaxNav
    /\ Dispatch([type |-> "NavigateTo", screen |-> screen])

NavigateBack ==
    /\ loop = "running"
    /\ Dispatch([type |-> "NavigateBack"])

SelectNext ==
    /\ loop = "running"
    /\ hist.nexts < MaxSelects
    /\ Dispatch([type |-> "SelectNext"])

SelectPrevious ==
    /\ loop = "running"
    /\ Dispatch([type |-> "SelectPrevious"])

NextSelect ==
    \/ \E screen \in ListScreens : NavigateTo(screen)
    \/ NavigateBack
    \/ SelectNext
    \/ SelectPrevious
    \/ \E id \in DomainIds : DeleteDomain(id)
    \/ \E id \in NodeIds : RemoveNode(id)
    \/ LoadConfig

SpecSelect == Init /\ [][NextSelect]_vars

(* ------------- SpecReload: LoadConfig in the middle of a session -------- *)
NextReload ==
    \/ \E screen \in {"DomainsList", "NodesList"} : NavigateTo(screen)
    \/ SelectNext
    \/ FetchNodeStats("n1")
    \/ LoadConfig
    \/ Finish
    \/ LoopRecv

SpecReload == Init /\ [][NextReload]_vars

(* ---------------- SpecRecords: the DNS records of a domain -------------- *)
\* An inventory whose Cloudflare domain has three records
RecordsConfig ==
    [InventoryConfig EXCEPT
        !.domains = <<Domain("d1", "Cloudflare", <<"r1", "r2", "r3">>),
                      Domain("d2", "Manual", <<>>)>>]

InitRecords == InitOn(File(RecordsConfig))

\* Domain ids of the intents: two that exist and one that does not
RecordDomains == {"d1", "d2", "d9"}

\* Indices of the intents: the valid ones and two beyond the longest list
RecordIndices == 0..4

AddDnsRecord(id, record) ==
    /\ loop = "running"
    /\ Dispatch([type |-> "AddDnsRecord", id |-> id, record |-> record])

UpdateDnsRecord(id, index, record) ==
    /\ loop = "running"
    /\ Dispatch([type |-> "UpdateDnsRecord", id |-> id, index |-> index,
                 record |-> record])

DeleteDnsRecord(id, index) ==
    /\ loop = "running"
    /\ Dispatch([type |-> "DeleteDnsRecord", id |-> id, index |-> index])

NextRecords ==
    \/ AddDnsRecord("d1", "r4")
    \/ \E id \in RecordDomains : \E i \in RecordIndices : UpdateDnsRecord(id, i, "r9")
    \/ \E id \in RecordDomains : \E i \in RecordIndices : DeleteDnsRecord(id, i)

SpecRecords == InitRecords /\ [][NextRecords]_vars

(* ----------------------- SpecLoop: App::run ---------------------------- *)
Events ==
    {Key("2"), Key("q"), [kind |-> "Release", code |-> "j", modifiers |-> "NONE"]}

NextLoop ==
    \/ \E e \in Events : TerminalEvent(e)
    \/ LoopInput
    \/ OrphanRead
    \/ StopSite("s1")
    \/ Finish
    \/ LoopRecv

\* select! polls its ready branches in random order: a ready recv branch is
\* not passed over forever
SpecLoop == Init /\ [][NextLoop]_vars /\ WF_vars(LoopRecv)

(* ======================================================================= *)
(*                               the claims                                *)
(* ======================================================================= *)
InProgressEntry(id) ==
    \E i \in DOMAIN state.pending_operations :
        /\ state.pending_operations[i].id = id
        /\ state.pending_operations[i].status = "InProgress"

\* C1: every task in flight, and every AsyncOperationCompleted waiting in the
\* channel, has an InProgress entry with its operation id in
\* pending_operations (registration happens before the spawn).
C1_RegisteredBeforeSpawn ==
    /\ \A t \in tasks : InProgressEntry(t.op_id)
    /\ \A k \in DOMAIN action_rx :
           IsCompletion(action_rx[k]) => InProgressEntry(action_rx[k].op_id)

\* C2: when the completion Ok(SiteDeployed(A)) of the auto-deploy spawned by
\* CreateSite(A) has been applied and A is in sites, A.status is Running and
\* the completion pushed exactly one notification, of level Success.
C2_CreateThenDeployed ==
    LET a == hist.last.action
    IN (/\ hist.last.src = "channel"
        /\ hist.last.origin = "CreateSite"
        /\ IsCompletion(a)
        /\ a.result.ok
        /\ a.result.payload.kind = "SiteDeployed"
        /\ get_site(state, a.result.payload.id) /= None)
       => /\ get_site(state, a.result.payload.id)[1].status = "Running"
          /\ hist.last.emitted = <<"Success">>

\* C6: every operation minted so far has a task that is still running and has
\* sent nothing, or a task that has finished and has sent exactly one Action;
\* no task sends twice, and a running task, whatever the inventory holds by
\* now, ends every outcome of its remote calls with one send.
C6_ExactlyOneSend ==
    /\ \A t \in tasks : \A o \in Outcomes(t) : Len(task_sends(t, o, now)) = 1
    /\ \A op \in 1..(MaxOps + 1) :
        IF op >= next_op
        THEN hist.sends[op] = 0 /\ ~(\E t \in tasks : t.op_id = op)
        ELSE \/ (\E t \in tasks : t.op_id = op) /\ hist.sends[op] = 0
             \/ ~(\E t \in tasks : t.op_id = op) /\ hist.sends[op] = 1

\* C6 witness: a task that was running when RemoveNode or LoadConfig was
\* applied has since sent its Action.
C6_Witness ==
    /\ hist.last.action.type \in {"RemoveNode", "LoadConfig"}
    /\ \E op \in hist.last.running : hist.sends[op] = 1

\* C7: when a failed completion (id, Err(e)) taken from the channel has been
\* applied, the entry for id is Failed(e) and the update pushed exactly one
\* notification, of level Error.
C7_FailureRecorded ==
    LET a == hist.last.action
    IN (hist.last.src = "channel" /\ IsCompletion(a) /\ ~a.result.ok)
       => /\ hist.last.emitted = <<"Error">>
          /\ \E i \in DOMAIN state.pending_operations :
                 /\ state.pending_operations[i].id = a.op_id
                 /\ state.pending_operations[i].status = "Failed"
                 /\ state.pending_operations[i].error = a.result.error

Inventories(st) == <<st.sites, st.domains, st.nodes>>

TerminalEntry(st, id) ==
    LET p == Position(st.pending_operations, id)
    IN p /= 0 /\ st.pending_operations[p].status \in {"Completed", "Failed"}

C4_NoInputLost == hist.read = hist.handled

IsPrefix(p, q) == Len(p) <= Len(q) /\ SubSeq(q, 1, Len(p)) = p

ChannelCount(op) == Cardinality({k \in DOMAIN hist.senders : hist.senders[k] = op})

\* C5: an Action sent into the channel waits there until the loop applies it,
\* once; the channel changes only by a send at its back or by the loop taking
\* and applying its oldest Action; and while run is in its loop every Action
\* sent is eventually applied.
C5_ChannelFifoOnce ==
    /\ [](\A op \in 1..(MaxOps + 1) :
            /\ hist.delivered[op] + ChannelCount(op) = hist.sends[op]
            /\ hist.delivered[op] <= 1)
    /\ [][action_rx' /= action_rx
          => \/ IsPrefix(action_rx, action_rx') /\ hist'.delivered = hist.delivered
             \/ /\ action_rx' = Tail(action_rx)
                /\ hist'.last.src = "channel"
                /\ hist'.last.action = Head(action_rx)]_vars
    /\ \A op \in 1..MaxOps :
           (hist.sends[op] = 1) ~> (hist.delivered[op] = 1 \/ loop /= "running")

\* C5 witness: two Actions were sent and both have been applied while run is
\* still in its loop.
C5_Witness ==
    /\ loop = "running"
    /\ hist.delivered[1] = 1
    /\ hist.delivered[2] = 1

HasUniqueIds(s) == \A i, j \in DOMAIN s : s[i].id = s[j].id => i = j

\* C9: no two sites share an id, no two domains share an id and no two nodes
\* share an id.
C9_UniqueIds ==
    /\ HasUniqueIds(state.sites)
    /\ HasUniqueIds(state.domains)
    /\ HasUniqueIds(state.nodes)

\* C10: the notification queue holds at most 50 entries.
C10_QueueCapped == Len(state.notifications) <= MaxNotifications

CursorInRange(index, list) == list /= <<>> => index < Len(list)

\* C11: whenever the sites, domains or nodes list is non-empty, its selection
\* index is below its length.
C11_CursorInRange ==
    /\ CursorInRange(state.selection_state.sites_list_index, state.sites)
    /\ CursorInRange(state.selection_state.domains_list_index, state.domains)
    /\ CursorInRange(state.selection_state.nodes_list_index, state.nodes)

\* C12: after a run of N SelectNext that began with the cursor at 0 on a list
\* of length L > 0, the cursor is N mod L; a SelectNext applied while the
\* current list is empty leaves AppState as it was.
C12_SelectNextWraps ==
    /\ []((hist.start = 0 /\ CurrentLen(state) > 0)
             => CurrentIndex(state) = hist.nexts % CurrentLen(state))
    /\ [][(SelectNext /\ CurrentLen(state) = 0) => state' = state]_vars

\* C12 witness: three SelectNext from cursor 0 on the two domains wrapped
\* the cursor round to 1.
C12_Witness ==
    /\ state.current_screen = "DomainsList"
    /\ Len(state.domains) = 2
    /\ hist.start = 0
    /\ hist.nexts = 3
    /\ state.selection_state.domains_list_index = 1

\* The notification pushed by the k-th SaveConfig of the queue specification
Saved(k) == Notification(<<"Configuration saved">>, "Success", k - 1)

Kept(k) == IF k > MaxNotifications THEN MaxNotifications ELSE k

\* C13: after k add_notification pushes onto the empty queue and nothing
\* else, the queue holds the last min(k, 50) notifications pushed, oldest
\* first; beyond 50 pushes the earliest ones are gone.
C13_KeepsNewestFifty ==
    hist.pushes >= 0 =>
        state.notifications =
            [i \in 1..Kept(hist.pushes) |-> Saved(hist.pushes - Kept(hist.pushes) + i)]

\* C13 witness: 51 pushes were made; 50 are held and the first is gone.
C13_Witness ==
    /\ hist.pushes = MaxNotifications + 1
    /\ Len(state.notifications) = MaxNotifications
    /\ state.notifications[1] = Saved(2)

\* The step spawned nothing, pushed no notification, returned Ok and left
\* AppState, the file and the channel as they were
NothingHappened ==
    /\ state' = state
    /\ tasks' = tasks
    /\ next_op' = next_op
    /\ action_rx' = action_rx
    /\ disk' = disk
    /\ loop' = loop
    /\ hist'.last.emitted = <<>>
    /\ ~hist'.last.err

\* C14: DeleteSite(id) applied when no site has that id spawns no task,
\* pushes no notification and changes no field of AppState.
C14_DeleteAbsentSite ==
    [][\A id \in SiteIds :
          (DeleteSite(id) /\ get_site(state, id) = None) => NothingHappened]_vars

\* C14 witness: DeleteSite(s2) was applied while no site s2 exists.
C14_Witness ==
    /\ hist.last.action = [type |-> "DeleteSite", id |-> "s2"]
    /\ get_site(state, "s2") = None
    /\ state.sites /= <<>>

\* C15: SyncDnsRecords(d) applied when domain d is Manual spawns no task,
\* adds no registry entry, returns Ok without a notification and leaves
\* d.dns_records and the rest of AppState unchanged.
C15_ManualSyncSkipped ==
    [][\A id \in DomainIds :
          (/\ SyncDnsRecords(id)
           /\ get_domain(state, id) /= None
           /\ get_domain(state, id)[1].dns_provider = "Manual") => NothingHappened]_vars

\* C15 witness: SyncDnsRecords(d2) was applied while d2 is a Manual domain.
C15_Witness ==
    /\ hist.last.action = [type |-> "SyncDnsRecords", id |-> "d2"]
    /\ get_domain(state, "d2") /= None
    /\ get_domain(state, "d2")[1].dns_provider = "Manual"

\* C16: a SaveConfig whose write fails is reported by a notification and run
\* stays in its loop: after any SaveConfig the loop is running and the update
\* pushed one notification.
C16_SaveFailureSurfaced ==
    hist.last.action.type = "SaveConfig"
    => /\ loop = "running"
       /\ Len(hist.last.emitted) = 1

\* Configs handed to save_config directly
RoundTripConfigs == {ConfigDefault, InventoryConfig, ManualSaveConfig,
                     [InventoryConfig EXCEPT !.nodes = <<NodeWithHealth>>]}

C19_AbsentFileCreated ==
    /\ [](fs_ok =>
            LET r == load_config(NoFile)
            IN /\ r.ok
               /\ r.config = [version |-> PackageVersion, sites |-> <<>>,
                              domains |-> <<>>, nodes |-> <<>>,
                              settings |-> SettingsDefault]
               /\ r.config.settings.auto_save
               /\ r.disk.exists
               /\ load_config(r.disk) = [ok |-> TRUE, config |-> r.config,
                                         disk |-> r.disk])
    /\ [][(LoadConfig /\ ~disk.exists /\ fs_ok)
           => /\ disk'.exists
              /\ Inventories(state') = <<<<>>, <<>>, <<>>>>
              /\ state'.auto_save
              /\ load_config(disk').config = ConfigDefault]_vars

\* C19 witness: the file was absent and a LoadConfig has put the default
\* config in memory and on disk.
C19_Witness ==
    /\ hist.last.action.type = "LoadConfig"
    /\ ~hist.last.err
    /\ Inventories(state) = <<<<>>, <<>>, <<>>>>
    /\ disk = File(ConfigDefault)

Providers == {"Cloudflare", "Route53", "Manual"}

\* C20: create_provider fails for Route53 and for Manual without building a
\* provider and succeeds for Cloudflare only; a sync task whose domain is not
\* Cloudflare ends with that error and has invoked no provider operation.
C20_OnlyCloudflareProvider ==
    /\ \A p \in Providers :
           /\ create_provider(p).ok <=> p = "Cloudflare"
           /\ create_provider(p).provider /= None <=> p = "Cloudflare"
    /\ \A t \in tasks :
           (t.kind = "SyncDns" /\ t.clones[1].dns_provider /= "Cloudflare")
           => \A o \in Outcomes(t) :
                  /\ ~o.ok
                  /\ o.calls = <<>>
                  /\ o.error = create_provider(t.clones[1].dns_provider).error

\* C20 witness: the sync of the Route53 domain ended with the
\* not-implemented error, which the loop has applied.
C20_Witness ==
    /\ hist.last.src = "channel"
    /\ IsCompletion(hist.last.action)
    /\ ~hist.last.action.result.ok
    /\ hist.last.action.result.error = "Route53 provider not yet implemented"

\* C17: AppState changes only as the result of one update applied to one
\* Action by the loop; the step in which a task sends changes neither
\* AppState nor the file, and what it sends is computed from the task's own
\* clones.
C17_SingleOwner ==
    [][/\ state' /= state
          => state' = update(Ctx(state, disk, now, next_op), hist'.last.action).state
       /\ hist'.sends /= hist.sends
          => /\ state' = state
             /\ disk' = disk
             /\ \E t \in tasks : \E o \in Outcomes(t) :
                    action_rx' = Append(action_rx, task_action(t, o, now))]_vars

\* C17 witness: a stop-site task has sent its ShowNotification and the loop
\* has applied it to AppState.
C17_Witness ==
    /\ hist.last.src = "channel"
    /\ hist.last.action.type = "ShowNotification"
    /\ hist.last.action.notification \in Range(state.notifications)

(* ------------------------- removal and merge --------------------------- *)
\* C21 as stated: the update step that applies DeleteSite(s) to an existing
\* site s removes s from sites.
C21_RemovedAtRequest ==
    [][\A id \in SiteIds :
          (DeleteSite(id) /\ get_site(state, id) /= None)
             => get_site(state', id) = None]_vars

\* C21: the update step that applies DeleteSite(s) leaves sites as it was,
\* s included; the step only hands the removal to a background task.
C21_KeptAtRequest ==
    [][\A id \in SiteIds :
          DeleteSite(id)
             => /\ state'.sites = state.sites
                /\ \A t \in tasks' \ tasks : t.kind = "DeleteSite" /\ t.target = id]_vars

\* C21 witness: DeleteSite(s1) was applied, its task is in flight and s1 is
\* still listed.
C21_Witness ==
    /\ hist.last.src = "input"
    /\ hist.last.action = [type |-> "DeleteSite", id |-> "s1"]
    /\ get_site(state, "s1") /= None
    /\ \E t \in tasks : t.kind = "DeleteSite" /\ t.target = "s1"
                          /\ t.op_id \notin hist.last.running

\* C22: when the completion Ok(SiteDeleted(s)) of a delete task has been taken
\* from the channel and applied, s is no longer in sites.
C22_RemovedOnSuccess ==
    LET a == hist.last.action
    IN (/\ hist.last.src = "channel"
        /\ IsCompletion(a)
        /\ a.result.ok
        /\ a.result.payload.kind = "SiteDeleted")
       => get_site(state, a.result.payload.id) = None

\* C23: when the completion Ok(DnsSynced(d, R)) of a sync task has been taken
\* from the channel and applied, the dns_records of domain d are exactly R.
C23_RecordsReplaced ==
    LET a == hist.last.action
    IN (/\ hist.last.src = "channel"
        /\ IsCompletion(a)
        /\ a.result.ok
        /\ a.result.payload.kind = "DnsSynced")
       => \E i \in DOMAIN state.domains :
              /\ state.domains[i].id = a.result.payload.id
              /\ state.domains[i].dns_records = a.result.payload.records

\* C24: the update that applies AsyncOperationCompleted(id, Err(e)) leaves the
\* sites, domains and nodes collections as they were: nothing is merged and
\* nothing is rolled back.
C24_FailureLeavesInventory ==
    [][\A op \in 1..MaxOps : \A r \in Results :
          (AsyncOperationCompleted(op, r) /\ ~r.ok)
             => Inventories(state') = Inventories(state)]_vars

\* C24 witness: a failure was applied to an entry of the registry, which is
\* now Failed with that error, and the site of the operation is still listed.
C24_Witness ==
    /\ IsCompletion(hist.last.action)
    /\ ~hist.last.action.result.ok
    /\ hist.last.emitted = <<"Error">>
    /\ \E i \in DOMAIN state.pending_operations :
           /\ state.pending_operations[i].id = hist.last.action.op_id
           /\ state.pending_operations[i].status = "Failed"
           /\ state.pending_operations[i].error = hist.last.action.result.error
           /\ get_site(state, state.pending_operations[i].operation_type[2]) /= None

\* C29: the update that applies an AsyncOperationCompleted, failed or not,
\* spawns no task and mints no operation id: a failure is never retried.
C29_FailureNotRetried ==
    [][\A op \in 1..MaxOps : \A r \in Results :
          AsyncOperationCompleted(op, r)
             => /\ tasks' = tasks
                /\ next_op' = next_op
                /\ action_rx' = action_rx]_vars

\* C29 witness: the failure e2 of operation 1 was applied and recorded in its
\* entry while no task is in flight.
C29_Witness ==
    /\ hist.last.action = Completed(1, Err("e2"))
    /\ Position(state.pending_operations, 1) /= 0
    /\ state.pending_operations[Position(state.pending_operations, 1)].status = "Failed"
    /\ state.pending_operations[Position(state.pending_operations, 1)].error = "e2"
    /\ tasks = {}

(* --------------------------- inventory intents ------------------------- *)
\* C25: the update of every inventory intent (create, update, delete of a
\* site, domain or node) pushes exactly one notification, also when the
\* entity it names does not exist.
C25_OneNotificationPerIntent ==
    (/\ hist.last.src = "input"
     /\ hist.last.action.type \in {"CreateSite", "UpdateSite", "CreateDomain",
                                    "DeleteDomain", "AddNode", "UpdateNode",
                                    "RemoveNode"})
    => Len(hist.last.emitted) = 1

\* C26: CreateSite(site) applied when no domain has site.domain_id or no node
\* has site.node_id does not add the site.
C26_CreateSiteChecksReferences ==
    [][\A site \in CrudSites :
          (/\ CreateSite(site)
           /\ \/ get_domain(state, site.domain_id) = None
              \/ get_node(state, site.node_id) = None)
          => state'.sites = state.sites]_vars

(* --------------------------- dangling references ------------------------ *)
\* The site exists while its domain or its node does not
Dangling(st, site_id) ==
    /\ get_site(st, site_id) /= None
    /\ \/ get_domain_for_site(st, site_id) = None
       \/ get_node_for_site(st, site_id) = None

\* update applied to the intent of the given type on the site
SiteIntent(type, site_id) ==
    /\ loop = "running"
    /\ Dispatch([type |-> type, id |-> site_id])

\* C27 as stated: every intent on a site whose domain or node is gone is
\* applied with update returning Ok, and spawns no task.
C27_DanglingNeverSpawns ==
    [][\A type \in SiteIntents : \A id \in SiteIds :
          (Dangling(state, id) /\ SiteIntent(type, id))
             => /\ ~hist'.last.err
                /\ loop' = "running"
                /\ tasks' = tasks]_vars

\* C27: every intent on a site whose domain or node is gone is applied with
\* update returning Ok; it spawns no task when the node is gone, and
\* DeploySite spawns none when the domain is gone; the other five, which
\* resolve the node only, spawn their one task when only the domain is gone.
C27_DanglingTolerated ==
    [][\A type \in SiteIntents : \A id \in SiteIds :
          (Dangling(state, id) /\ SiteIntent(type, id))
             => /\ ~hist'.last.err
                /\ loop' = "running"
                /\ IF \/ get_node_for_site(state, id) = None
                      \/ type = "DeploySite"
                   THEN tasks' = tasks /\ next_op' = next_op
                   ELSE /\ Cardinality(tasks' \ tasks) = 1
                        /\ \A t \in tasks' \ tasks :
                               t.kind = type /\ t.target = id]_vars

\* C27 witness: DeploySite(s1) was applied after the domain of s1 was deleted
\* and its node kept; update returned Ok and no deploy task exists.
C27_Witness ==
    /\ hist.last.action = [type |-> "DeploySite", id |-> "s1"]
    /\ ~hist.last.err
    /\ loop = "running"
    /\ get_site(state, "s1") /= None
    /\ get_domain_for_site(state, "s1") = None
    /\ get_node_for_site(state, "s1") /= None
    /\ \A t \in tasks : t.kind /= "DeploySite"

(* ------------------------ operations on one entity ---------------------- *)
\* C28: operations on the same site are neither deduplicated nor mutually
\* excluded.  DeploySite(s) or DeleteSite(s) applied while other tasks for s
\* are in flight spawns its task all the same, in that update; every task in
\* flight can finish next, whichever was spawned first; and applying what one
\* task sent leaves the other tasks in flight.
C28_NoMutualExclusion ==
    /\ [][\A type \in {"DeploySite", "DeleteSite"} : \A id \in SiteIds :
             (/\ SiteIntent(type, id)
              /\ get_site(state, id) /= None
              /\ ~Dangling(state, id))
                => /\ Cardinality(tasks' \ tasks) = 1
                   /\ \A t \in tasks' \ tasks : t.kind = type /\ t.target = id
                   /\ tasks \subseteq tasks']_vars
    /\ [][LoopRecv => tasks' = tasks]_vars
    /\ [](\A t \in tasks : \A o \in Outcomes(t) :
             (loop = "running" /\ (reads_clock(t, o) => now < MaxClock))
                => ENABLED TaskFinish(t, o))

\* C28 witness: the deploy of s1 (operation 1) and the delete of s1
\* (operation 2) were in flight together, and the completion of the delete
\* has been applied while the deploy is still in flight.
C28_Witness ==
    /\ hist.last.src = "channel"
    /\ IsCompletion(hist.last.action)
    /\ hist.last.action.op_id = 2
    /\ hist.last.origin = "DeleteSite"
    /\ \E t \in tasks : t.op_id = 1 /\ t.kind = "DeploySite" /\ t.target = "s1"

(* ------------------------------ navigation ------------------------------ *)
\* C30: NavigateTo(s) pushes the current screen onto previous_screen and makes
\* s the current screen; NavigateBack makes the last pushed screen current
\* and pops it, or changes nothing when previous_screen is empty; NavigateBack
\* right after NavigateTo(s) restores both fields; neither changes any other
\* field of AppState, spawns a task or pushes a notification.
C30_NavigationStack ==
    /\ [][\A screen \in ListScreens :
             NavigateTo(screen)
                => state' = [state EXCEPT
                               !.previous_screen = Append(@, state.current_screen),
                               !.current_screen = screen]]_vars
    /\ [][NavigateBack
             => /\ state.previous_screen = <<>> => state' = state
                /\ state.previous_screen /= <<>>
                      => state' = [state EXCEPT
                                     !.current_screen =
                                         state.previous_screen[Len(state.previous_screen)],
                                     !.previous_screen =
                                         SubSeq(@, 1, Len(state.previous_screen) - 1)]]_vars
    /\ [][(NavigateBack \/ \E screen \in ListScreens : NavigateTo(screen))
             => /\ tasks' = tasks
                /\ disk' = disk
                /\ hist'.last.emitted = <<>>
                /\ ~hist'.last.err]_vars
    /\ [](\A screen \in ListScreens :
             update(update(Ctx(state, disk, now, next_op),
                           [type |-> "NavigateTo", screen |-> screen]),
                    [type |-> "NavigateBack"]).state = state)

\* C30 witness: NavigateBack was applied on a stack of two screens and
\* brought back the first list screen visited, leaving the dashboard below.
C30_Witness ==
    /\ hist.last.action = [type |-> "NavigateBack"]
    /\ state.current_screen = "DomainsList"
    /\ state.previous_screen = <<"Dashboard">>

(* ------------------------------- selection ------------------------------ *)
\* C31: SelectPrevious applied on a list of length L > 0 with the cursor at
\* i < L moves the cursor to (i + L - 1) mod L, which is L - 1 when i is 0;
\* from such a cursor SelectNext followed by SelectPrevious gives the state
\* back; SelectPrevious applied while the current list is empty leaves
\* AppState as it was.
C31_SelectPreviousWraps ==
    /\ [][(SelectPrevious /\ CurrentLen(state) > 0
                           /\ CurrentIndex(state) < CurrentLen(state))
             => /\ CurrentIndex(state') =
                      (CurrentIndex(state) + CurrentLen(state) - 1) % CurrentLen(state)
                /\ CurrentIndex(state) = 0
                      => CurrentIndex(state') = CurrentLen(state) - 1]_vars
    /\ []((CurrentLen(state) > 0 /\ CurrentIndex(state) < CurrentLen(state))
             => update(update(Ctx(state, disk, now, next_op), [type |-> "SelectNext"]),
                       [type |-> "SelectPrevious"]).state = state)
    /\ [][(SelectPrevious /\ CurrentLen(state) = 0) => state' = state]_vars

\* C31 witness: SelectPrevious on the two domains left the cursor on the last
\* row, where only a cursor at 0 can have come from.
C31_Witness ==
    /\ hist.last.action = [type |-> "SelectPrevious"]
    /\ state.current_screen = "DomainsList"
    /\ Len(state.domains) = 2
    /\ state.selection_state.domains_list_index = 1

(* --------------------------- completions merged ------------------------- *)
\* C32: the update that applies a successful Logs or Metrics completion
\* leaves the sites, domains and nodes collections as they were and does
\* not write the configuration file.
C32_LogsNotPersisted ==
    [][\A op \in 1..MaxOps : \A r \in Results :
          (/\ AsyncOperationCompleted(op, r)
           /\ r.ok
           /\ r.payload.kind \in {"Logs", "Metrics"})
             => /\ Inventories(state') = Inventories(state)
                /\ disk' = disk]_vars

\* C32 witness: a Metrics completion was applied to an entry of the registry,
\* which it completed, without a notification.
C32_Witness ==
    /\ IsCompletion(hist.last.action)
    /\ hist.last.action.result.ok
    /\ hist.last.action.result.payload.kind = "Metrics"
    /\ hist.last.emitted = <<>>
    /\ \E i \in DOMAIN state.pending_operations :
           /\ state.pending_operations[i].id = hist.last.action.op_id
           /\ state.pending_operations[i].status = "Completed"
    /\ \E i \in DOMAIN state.sites : state.sites[i].status = "Inactive"

(* --------------------------------- quit --------------------------------- *)
\* C33: once an update has left should_quit true the loop has stopped and no
\* further Action, from the terminal or from the channel, is applied, also
\* while tasks are in flight or their Actions wait in the channel; and
\* should_quit becomes true only in the update of Quit.
C33_QuitStopsLoop ==
    /\ [](state.should_quit => loop = "stopped")
    /\ [][state.should_quit
             => /\ state' = state
                /\ disk' = disk
                /\ hist'.last = hist.last
                /\ hist'.delivered = hist.delivered]_vars
    /\ [][(state'.should_quit /\ ~state.should_quit)
             => hist'.last.action.type = "Quit"]_vars

\* C33 witness: Quit was applied while one task was in flight and the Action
\* of another waited in the channel.
C33_Witness ==
    /\ state.should_quit
    /\ hist.last.action.type = "Quit"
    /\ tasks /= {}
    /\ action_rx /= <<>>

C35_StopReportsByNotification ==
    /\ [][\A t \in tasks : \A o \in Outcomes(t) :
             (TaskFinish(t, o) /\ t.kind \in {"StopSite", "RestartSite"} /\ o.ok)
                => /\ Len(action_rx') = Len(action_rx) + 1
                   /\ action_rx'[Len(action_rx')].type = "ShowNotification"
                   /\ action_rx'[Len(action_rx')].notification.level = "Success"]_vars
    /\ [][(LoopRecv /\ recv(action_rx).type = "ShowNotification")
             => state' = [state EXCEPT
                            !.notifications =
                                Append(@, recv(action_rx).notification)]]_vars
    /\ [](\A i \in DOMAIN state.sites : state.sites[i].status /= "Stopped")

\* C35 witness: the stop of s1 succeeded, its ShowNotification was applied
\* and s1 is still Inactive.
C35_Witness ==
    /\ hist.last.src = "channel"
    /\ hist.last.origin = "StopSite"
    /\ hist.last.action.type = "ShowNotification"
    /\ hist.last.action.notification.level = "Success"
    /\ state.notifications = <<hist.last.action.notification>>
    /\ get_site(state, "s1")[1].status = "Inactive"

(* -------------------------------- reload -------------------------------- *)
\* C36: after a LoadConfig that returned Ok the screen is the dashboard, the
\* navigation stack is empty, the three cursors are 0, pending_operations is
\* empty, the inventory is the one of the file, and the queue holds exactly
\* the one Info notification of the reload; the tasks in flight and the
\* Actions waiting in the channel are untouched, and an Action received
\* afterwards is applied to the state as it then is.
C36_ReloadReplacesState ==
    /\ [][(LoadConfig /\ ~hist'.last.err)
             => /\ state'.current_screen = "Dashboard"
                /\ state'.previous_screen = <<>>
                /\ state'.selection_state.sites_list_index = 0
                /\ state'.selection_state.domains_list_index = 0
                /\ state'.selection_state.nodes_list_index = 0
                /\ state'.pending_operations = <<>>
                /\ Len(state'.notifications) = 1
                /\ state'.notifications[1].level = "Info"
                /\ state'.notifications[1].message = <<"Configuration reloaded">>
                /\ disk'.exists
                /\ Inventories(state') = <<from_str(disk'.content).sites,
                                            from_str(disk'.content).domains,
                                            from_str(disk'.content).nodes>>
                /\ tasks' = tasks
                /\ action_rx' = action_rx]_vars
    /\ [][LoopRecv
             => state' = update(Ctx(state, disk, now, next_op), recv(action_rx)).state]_vars

\* C36 witness: the stats task was spawned, LoadConfig was applied on a list
\* screen, and then the task's completion was received and applied to the
\* reloaded state.
C36_Witness ==
    /\ hist.last.src = "channel"
    /\ hist.last.origin = "FetchNodeStats"
    /\ IsCompletion(hist.last.action)
    /\ state.current_screen = "Dashboard"
    /\ Len(state.notifications) = 1
    /\ state.notifications[1].message = <<"Configuration reloaded">>
    /\ state.notifications[1].timestamp > 0

(* ------------------------------- auto-save ------------------------------ *)
\* The file holds the sites, domains and nodes of the state
Synced(st, dk) ==
    /\ dk.exists
    /\ Inventories(st) = <<from_str(dk.content).sites, from_str(dk.content).domains,
                           from_str(dk.content).nodes>>

\* One update of the disk specification
DiskUpdate ==
    \/ SaveConfig
    \/ LoadConfig
    \/ CreateDomain(Domain("d2", "Manual", <<>>))
    \/ UpdateNode("n1", NodeWithHealth)
    \/ Quit

\* With auto_save on, an update that returned Ok and changed the inventory,
\* or found the file in step with it, leaves the file in step with it
AutoSaveKeepsFile ==
    [][(/\ DiskUpdate
        /\ state.auto_save
        /\ ~hist'.last.err
        /\ \/ Inventories(state') /= Inventories(state)
           \/ Synced(state, disk))
          => Synced(state', disk')]_vars

\* C37 as stated: with auto_save on the file follows the inventory, and with
\* auto_save off no update but that of SaveConfig changes the file.
C37_OnlySaveConfigWrites ==
    /\ AutoSaveKeepsFile
    /\ [][(DiskUpdate /\ ~state.auto_save /\ disk' /= disk) => SaveConfig]_vars

\* C37: with auto_save on the file follows the inventory; with auto_save off
\* no update changes the file but that of SaveConfig and that of a LoadConfig
\* that finds no file, which writes the default configuration.
C37_AutoSaveFollowsInventory ==
    /\ AutoSaveKeepsFile
    /\ [][(DiskUpdate /\ ~state.auto_save /\ disk' /= disk)
             => (SaveConfig \/ (LoadConfig /\ ~disk.exists))]_vars

\* C37 witness: with auto_save on, CreateDomain added a third domain and the
\* file holds all three.
C37_Witness ==
    /\ hist.last.action.type = "CreateDomain"
    /\ ~hist.last.err
    /\ state.auto_save
    /\ Len(state.domains) = 3
    /\ Synced(state, disk)

(* ------------------------------ DNS records ----------------------------- *)
\* The dns_records of the domain with the id, <<>> when there is none
RecordsOf(st, id) ==
    IF get_domain(st, id) = None THEN <<>> ELSE get_domain(st, id)[1].dns_records

\* Every domain but the one with the id is as before
OtherDomainsKept(id) ==
    /\ Len(state'.domains) = Len(state.domains)
    /\ \A k \in DOMAIN state.domains :
           /\ state'.domains[k].id = state.domains[k].id
           /\ state.domains[k].id /= id => state'.domains[k] = state.domains[k]
    /\ state'.sites = state.sites
    /\ state'.nodes = state.nodes

\* C38: UpdateDnsRecord(d, i, r) and DeleteDnsRecord(d, i) applied with no
\* domain d, or with i at or beyond the number of records of d, return Ok
\* and leave AppState and the file as they were; with i in range exactly the
\* record at position i is replaced by r, respectively removed, the others
\* keeping their order, and nothing else of the inventory changes.
C38_RecordIndexChecked ==
    /\ [][\A id \in RecordDomains : \A i \in RecordIndices :
             (/\ UpdateDnsRecord(id, i, "r9") \/ DeleteDnsRecord(id, i)
              /\ get_domain(state, id) = None \/ i >= Len(RecordsOf(state, id)))
                => /\ state' = state
                   /\ disk' = disk
                   /\ ~hist'.last.err
                   /\ loop' = "running"]_vars
    /\ [][\A id \in RecordDomains : \A i \in RecordIndices :
             (/\ UpdateDnsRecord(id, i, "r9")
              /\ get_domain(state, id) /= None
              /\ i < Len(RecordsOf(state, id)))
                => /\ RecordsOf(state', id) =
                         [k \in 1..Len(RecordsOf(state, id)) |->
                             IF k = i + 1 THEN "r9" ELSE RecordsOf(state, id)[k]]
                   /\ OtherDomainsKept(id)]_vars
    /\ [][\A id \in RecordDomains : \A i \in RecordIndices :
             (/\ DeleteDnsRecord(id, i)
              /\ get_domain(state, id) /= None
              /\ i < Len(RecordsOf(state, id)))
                => /\ RecordsOf(state', id) =
                         SubSeq(RecordsOf(state, id), 1, i)
                            \o SubSeq(RecordsOf(state, id), i + 2,
                                      Len(RecordsOf(state, id)))
                   /\ OtherDomainsKept(id)]_vars

\* C38 witness: DeleteDnsRecord(d1, 1) removed the middle one of the three
\* records of d1.
C38_Witness ==
    /\ hist.last.action = [type |-> "DeleteDnsRecord", id |-> "d1", index |-> 1]
    /\ RecordsOf(state, "d1") = <<"r1", "r3">>

\* C39: the update of SelectNext or SelectPrevious changes at most the cursor
\* of the list the current screen shows, leaving the other two cursors and
\* every other field of AppState as they were; on a screen without a list it
\* changes nothing; it never spawns, saves or notifies.
C39_OnlyCurrentCursorMoves ==
    [][(SelectNext \/ SelectPrevious)
         => /\ CASE state.current_screen = "SitesList" ->
                      state' = [state EXCEPT !.selection_state.sites_list_index =
                                   state'.selection_state.sites_list_index]
                 [] state.current_screen = "DomainsList" ->
                      state' = [state EXCEPT !.selection_state.domains_list_index =
                                   state'.selection_state.domains_list_index]
                 [] state.current_screen = "NodesList" ->
                      state' = [state EXCEPT !.selection_state.nodes_list_index =
                                   state'.selection_state.nodes_list_index]
                 [] OTHER -> state' = state
            /\ tasks' = tasks
            /\ disk' = disk
            /\ hist'.last.emitted = <<>>]_vars

\* C39 witness: after a visit to the sites list, SelectNext on the domains
\* list moved the domains cursor to 1 while the other two cursors are at 0.
C39_Witness ==
    /\ hist.last.action = [type |-> "SelectNext"]
    /\ state.current_screen = "DomainsList"
    /\ state.previous_screen = <<"Dashboard", "SitesList">>
    /\ state.selection_state.domains_list_index = 1
    /\ state.selection_state.sites_list_index = 0
    /\ state.selection_state.nodes_list_index = 0

(* ------------------------------- node stats ----------------------------- *)
\* C40: a FetchNodeStats task issues the docker call and then the traefik
\* call and sends exactly one AsyncOperationCompleted; it is Ok(NodeStats) carrying both infos exactly when the docker call and the
\* traefik call both succeeded, and otherwise a failure without any result;
\* no node ever holds one of docker_info and traefik_info without the other.
C40_StatsAllOrNothing ==
    /\ [][\A t \in tasks : \A o \in Outcomes(t) :
             (TaskFinish(t, o) /\ t.kind = "FetchNodeStats")
                => /\ o.calls = <<"get_docker_info", "get_traefik_info">>
                   /\ Len(action_rx') = Len(action_rx) + 1
                   /\ LET a == action_rx'[Len(action_rx')]
                      IN /\ IsCompletion(a)
                         /\ a.op_id = t.op_id
                         /\ a.result.ok <=> (o.docker_ok /\ o.traefik_ok)
                         /\ a.result.ok
                               => a.result.payload =
                                     [kind |-> "NodeStats", id |-> t.target,
                                      docker_info |-> "docker",
                                      traefik_info |-> "traefik"]
                         /\ ~a.result.ok
                               => a.result = Err("Failed to fetch node stats")]_vars
    /\ [](\A i \in DOMAIN state.nodes :
             (state.nodes[i].docker_info = None) <=> (state.nodes[i].traefik_info = None))

\* C40 witness: the failure of a stats task was received and applied, and
\* node n1 holds neither info.
C40_Witness ==
    /\ hist.last.src = "channel"
    /\ hist.last.origin = "FetchNodeStats"
    /\ hist.last.action.result = Err("Failed to fetch node stats")
    /\ get_node(state, "n1")[1].docker_info = None
    /\ get_node(state, "n1")[1].traefik_info = None

====
